---- MODULE Spec2Model ----
(***************************************************************************)
(* Model of the expr library (src/expr.h): the function/constant registry, *)
(* the expression tree with Differentiate / Evaluate / Simplify, the       *)
(* regex tokenizer and the recursive-descent parser.                       *)
(*                                                                         *)
(* Representation.                                                         *)
(*  - Text (std::string) is a sequence of one-character strings; a fixed   *)
(*    diagnostic literal is kept as one multi-character element.           *)
(*  - A double is a record [k, neg, n, d]: sign and magnitude n/d, so that *)
(*    +0 and -0, +Inf and -Inf, quiet and signaling NaN are distinct.      *)
(*    Arithmetic is exact on rationals (IEEE rounding is not modelled);    *)
(*    a result that is not rational is the unknown value Irr.              *)
(***************************************************************************)
EXTENDS Integers, Sequences, FiniteSets, TLC

VARIABLES
    s_Functions,    \* Configuration::s_Functions : id -> Function*
    s_Constants,    \* Configuration::s_Constants : name -> double
    s_Init,         \* Configuration::s_Init
    heapNext,       \* number of live Function objects (new T(), delete func)
    absOverload,    \* which abs() the unqualified call in ModulusFunction::Exec binds to
    ast,            \* the tree under test (constructed through the node constructors)
    simp,           \* result of ast->Simplify()
    diff,           \* result of ast->Differentiate(respectTo)
    respectTo,      \* argument of the last Differentiate
    env,            \* argument of the last Evaluate
    valAst,         \* ast->Evaluate(env)
    valSimp,        \* simp->Evaluate(env)
    input,          \* argument of Tokenizer::Tokenize
    tk,             \* locals of Tokenizer::Tokenize: it, i, tokens, insideModulus
    parsed,         \* result of Parser(tokens).ParseExpression()
    printed,        \* ast->ToString()
    passes,         \* diff->Simplify(), then ->Simplify() of that, ...: tree and its text
    chain           \* respect-to names of the Differentiate calls made in a row, diff the last result

vars == <<s_Functions, s_Constants, s_Init, heapNext, absOverload, chain, ast, simp, diff,
          respectTo, env, valAst, valSimp, input, tk, parsed, printed, passes>>

(***************************************************************************)
(* Bounds of the model                                                     *)
(***************************************************************************)
MaxNum == 2
MaxLen == 3
MaxOps == 3
\* Simplify() calls in a row on the result of Differentiate
MaxPasses == 2
\* Differentiate() calls in a row
MaxChain == 2
\* the largest Number a function is applied to
MaxArg == 10

(***************************************************************************)
(* Text helpers                                                            *)
(***************************************************************************)
Digits == {"0", "1", "2", "3", "4", "5", "6", "7", "8", "9"}
Letters == {"a", "b", "c", "d", "e", "f", "g", "h", "i", "j", "k", "l", "m", "n", "o", "p",
            "q", "r", "s", "t", "u", "v", "w", "x", "y", "z",
            "A", "B", "C", "D", "E", "F", "G", "H", "I", "J", "K", "L", "M", "N", "O", "P",
            "Q", "R", "S", "T", "U", "V", "W", "X", "Y", "Z"}

DigitVal(c) ==
    CASE c = "0" -> 0 [] c = "1" -> 1 [] c = "2" -> 2 [] c = "3" -> 3 [] c = "4" -> 4
      [] c = "5" -> 5 [] c = "6" -> 6 [] c = "7" -> 7 [] c = "8" -> 8 [] c = "9" -> 9

IsDigit(c) == c \in Digits
IsLetter(c) == c \in Letters
IsWordChar(c) == IsDigit(c) \/ IsLetter(c)

(***************************************************************************)
(* Doubles                                                                 *)
(***************************************************************************)
RECURSIVE GCD(_, _)
GCD(a, b) == IF b = 0 THEN a ELSE GCD(b, a % b)

Fin(neg, n, d) ==
    LET g == GCD(n, d) IN [k |-> "fin", neg |-> neg, n |-> n \div g, d |-> d \div g]
Inf(neg) == [k |-> "inf", neg |-> neg, n |-> 1, d |-> 0]
QNaN == [k |-> "nan", neg |-> FALSE, n |-> 0, d |-> 0]
SNaN == [k |-> "nan", neg |-> FALSE, n |-> 1, d |-> 0]
Irr == [k |-> "irr", neg |-> FALSE, n |-> 0, d |-> 0]
IrrE == [k |-> "irr", neg |-> FALSE, n |-> 1, d |-> 0]
IrrPi == [k |-> "irr", neg |-> FALSE, n |-> 2, d |-> 0]
Indeterminate == [k |-> "ub", neg |-> FALSE, n |-> 0, d |-> 0]
Fault == [k |-> "fault", neg |-> FALSE, n |-> 0, d |-> 0]
NoVal == [k |-> "none", neg |-> FALSE, n |-> 0, d |-> 0]

Num(i) == IF i < 0 THEN Fin(TRUE, -i, 1) ELSE Fin(FALSE, i, 1)
Zero == Num(0)
One == Num(1)

IsZero(v) == v.k = "fin" /\ v.n = 0
IsNaN(v) == v.k = "nan"
IsSNaN(v) == v.k = "nan" /\ v.n = 1
IsInt(v) == v.k = "fin" /\ v.d = 1
IsOddInt(v) == IsInt(v) /\ v.n % 2 = 1

\* the == of two doubles
DEq(a, b) ==
    /\ a.k \in {"fin", "inf"}
    /\ b.k = a.k
    /\ \/ IsZero(a) /\ IsZero(b)
       \/ a = b

\* a < b for finite or infinite doubles
DLess(a, b) ==
    /\ a.k \in {"fin", "inf"} /\ b.k \in {"fin", "inf"}
    /\ ~DEq(a, b)
    /\ IF a.neg # b.neg THEN a.neg
       ELSE LET magLess(x, y) ==
                   IF x.k = "inf" THEN FALSE
                   ELSE IF y.k = "inf" THEN TRUE
                   ELSE x.n * y.d < y.n * x.d
            IN IF a.neg THEN magLess(b, a) ELSE magLess(a, b)

Negate(v) == IF v.k \in {"fin", "inf"} THEN [v EXCEPT !.neg = ~v.neg] ELSE v

\* operands that decide the result whatever the operation
Absorb(a, b) ==
    IF a.k = "fault" \/ b.k = "fault" THEN Fault
    ELSE IF a.k = "ub" \/ b.k = "ub" THEN Indeterminate
    ELSE IF a.k = "nan" \/ b.k = "nan" THEN QNaN
    ELSE Irr
Absorbs(a, b) == {a.k, b.k} \cap {"fault", "ub", "nan", "irr"} # {}

DAdd(a, b) ==
    IF Absorbs(a, b) THEN Absorb(a, b)
    ELSE IF a.k = "inf" THEN (IF b.k = "inf" /\ b.neg # a.neg THEN QNaN ELSE a)
    ELSE IF b.k = "inf" THEN b
    ELSE LET sa == IF a.neg THEN -a.n ELSE a.n
             sb == IF b.neg THEN -b.n ELSE b.n
             num == sa * b.d + sb * a.d
         IN IF num = 0 THEN Fin(a.neg /\ b.neg, 0, 1)
            ELSE IF num < 0 THEN Fin(TRUE, -num, a.d * b.d)
            ELSE Fin(FALSE, num, a.d * b.d)

DSub(a, b) == DAdd(a, Negate(b))

DMul(a, b) ==
    IF Absorbs(a, b) THEN Absorb(a, b)
    ELSE LET neg == (a.neg # b.neg) IN
         IF a.k = "inf" \/ b.k = "inf"
         THEN (IF IsZero(a) \/ IsZero(b) THEN QNaN ELSE Inf(neg))
         ELSE Fin(neg, a.n * b.n, a.d * b.d)

DDiv(a, b) ==
    IF Absorbs(a, b) THEN Absorb(a, b)
    ELSE LET neg == (a.neg # b.neg) IN
         IF a.k = "inf" THEN (IF b.k = "inf" THEN QNaN ELSE Inf(neg))
         ELSE IF b.k = "inf" THEN Fin(neg, 0, 1)
         ELSE IF IsZero(b) THEN (IF IsZero(a) THEN QNaN ELSE Inf(neg))
         ELSE Fin(neg, a.n * b.d, a.d * b.n)

RECURSIVE IPow(_, _)
IPow(b, e) == IF e = 0 THEN 1 ELSE b * IPow(b, e - 1)

\* pow(a, b) of <cmath>
DPow(a, b) ==
    IF a.k = "fault" \/ b.k = "fault" THEN Fault
    ELSE IF a.k = "ub" \/ b.k = "ub" THEN Indeterminate
    ELSE IF IsSNaN(a) \/ IsSNaN(b) THEN QNaN
    ELSE IF IsZero(b) THEN One
    ELSE IF a = One THEN One
    ELSE IF IsNaN(a) \/ IsNaN(b) THEN QNaN
    ELSE IF a.k = "irr" \/ b.k = "irr" THEN Irr
    ELSE IF b.k = "inf" THEN
        (IF a.k = "fin" /\ a.n = a.d THEN One
         ELSE IF a.k = "fin" /\ a.n < a.d THEN (IF b.neg THEN Inf(FALSE) ELSE Zero)
         ELSE (IF b.neg THEN Zero ELSE Inf(FALSE)))
    ELSE IF a.k = "inf" THEN
        (IF b.neg THEN Fin(a.neg /\ IsOddInt(b), 0, 1) ELSE Inf(a.neg /\ IsOddInt(b)))
    ELSE IF IsZero(a) THEN
        (IF b.neg THEN Inf(a.neg /\ IsOddInt(b)) ELSE Fin(a.neg /\ IsOddInt(b), 0, 1))
    ELSE IF IsInt(b) THEN
        (IF b.neg THEN Fin(a.neg /\ IsOddInt(b), IPow(a.d, b.n), IPow(a.n, b.n))
         ELSE Fin(a.neg /\ IsOddInt(b), IPow(a.n, b.n), IPow(a.d, b.n)))
    ELSE IF a.neg THEN QNaN
    ELSE Irr

\* the whole number r with r * r = n, or -1
ISqrt(n) == IF \E r \in 0..n : r * r = n THEN CHOOSE r \in 0..n : r * r = n ELSE -1

(***************************************************************************)
(* Function classes (FUNC_IMPL)                                            *)
(***************************************************************************)
FunctionClasses ==
    {"SineFunction", "CosineFunction", "TangentFunction", "CotangentFunction",
     "SecantFunction", "CosecantFunction", "HyperbolicSineFunction",
     "HyperbolicCosineFunction", "HyperbolicTangentFunction",
     "HyperbolicCotangentFunction", "HyperbolicSecantFunction",
     "HyperbolicCosecantFunction", "Base10LogarithmFunction",
     "NaturalLogarithmFunction", "ExponentialFunction", "SquareRootFunction",
     "ModulusFunction"}

GetExpressionID(cls) ==
    CASE cls = "SineFunction" -> <<"s", "i", "n">>
      [] cls = "CosineFunction" -> <<"c", "o", "s">>
      [] cls = "TangentFunction" -> <<"t", "a", "n">>
      [] cls = "CotangentFunction" -> <<"c", "o", "t">>
      [] cls = "SecantFunction" -> <<"s", "e", "c">>
      [] cls = "CosecantFunction" -> <<"c", "s", "c">>
      [] cls = "HyperbolicSineFunction" -> <<"s", "i", "n", "h">>
      [] cls = "HyperbolicCosineFunction" -> <<"c", "o", "s", "h">>
      [] cls = "HyperbolicTangentFunction" -> <<"t", "a", "n", "h">>
      [] cls = "HyperbolicCotangentFunction" -> <<"c", "o", "t", "h">>
      [] cls = "HyperbolicSecantFunction" -> <<"s", "e", "c", "h">>
      [] cls = "HyperbolicCosecantFunction" -> <<"c", "s", "c", "h">>
      [] cls = "Base10LogarithmFunction" -> <<"l", "o", "g">>
      [] cls = "NaturalLogarithmFunction" -> <<"l", "n">>
      [] cls = "ExponentialFunction" -> <<"e", "x", "p">>
      [] cls = "SquareRootFunction" -> <<"s", "q", "r", "t">>
      [] cls = "ModulusFunction" -> <<"a", "b", "s">>

\* values every Exec passes through
Through(v) == v.k \in {"fault", "ub", "irr"}
Pass(v) == IF v.k = "irr" THEN Irr ELSE v

ExecSin(x) ==
    IF Through(x) THEN Pass(x)
    ELSE IF x.k \in {"nan", "inf"} THEN QNaN
    ELSE IF IsZero(x) THEN x ELSE Irr

ExecCos(x) ==
    IF Through(x) THEN Pass(x)
    ELSE IF x.k \in {"nan", "inf"} THEN QNaN
    ELSE IF IsZero(x) THEN One ELSE Irr

ExecSinh(x) ==
    IF Through(x) THEN Pass(x)
    ELSE IF x.k = "nan" THEN QNaN
    ELSE IF x.k = "inf" \/ IsZero(x) THEN x ELSE Irr

ExecCosh(x) ==
    IF Through(x) THEN Pass(x)
    ELSE IF x.k = "nan" THEN QNaN
    ELSE IF x.k = "inf" THEN Inf(FALSE)
    ELSE IF IsZero(x) THEN One ELSE Irr

ExecTanh(x) ==
    IF Through(x) THEN Pass(x)
    ELSE IF x.k = "nan" THEN QNaN
    ELSE IF x.k = "inf" THEN Fin(x.neg, 1, 1)
    ELSE IF IsZero(x) THEN x ELSE Irr

\* log10 when ten is TRUE, log otherwise
ExecLog(x, ten) ==
    IF Through(x) THEN Pass(x)
    ELSE IF x.k = "nan" THEN QNaN
    ELSE IF IsZero(x) THEN Inf(TRUE)
    ELSE IF x.neg THEN QNaN
    ELSE IF x.k = "inf" THEN x
    ELSE IF x = One THEN Zero
    ELSE IF ten /\ x = Num(10) THEN One
    ELSE Irr

ExecExp(x) ==
    IF Through(x) THEN Pass(x)
    ELSE IF x.k = "nan" THEN QNaN
    ELSE IF x.k = "inf" THEN (IF x.neg THEN Zero ELSE x)
    ELSE IF IsZero(x) THEN One ELSE Irr

ExecSqrt(x) ==
    IF Through(x) THEN Pass(x)
    ELSE IF x.k = "nan" THEN QNaN
    ELSE IF IsZero(x) THEN x
    ELSE IF x.neg THEN QNaN
    ELSE IF x.k = "inf" THEN x
    ELSE IF ISqrt(x.n) >= 0 /\ ISqrt(x.d) >= 0 THEN Fin(FALSE, ISqrt(x.n), ISqrt(x.d))
    ELSE Irr

\* abs(x) is an unqualified call: it binds to ::abs(int) or to std::abs(double)
\* depending on what the standard headers of the build declare globally
ExecAbs(x) ==
    IF x.k \in {"fault", "ub"} THEN x
    ELSE IF absOverload = "double" THEN
        (IF x.k \in {"fin", "inf"} THEN [x EXCEPT !.neg = FALSE]
         ELSE IF x.k = "nan" THEN QNaN ELSE x)
    ELSE IF x.k = "fin" THEN Fin(FALSE, x.n \div x.d, 1)
    ELSE IF x.k = "irr" THEN Irr
    ELSE Indeterminate

Exec(cls, x) ==
    CASE cls = "SineFunction" -> ExecSin(x)
      [] cls = "CosineFunction" -> ExecCos(x)
      [] cls = "TangentFunction" -> ExecSin(x)
      [] cls = "CotangentFunction" -> DDiv(ExecCos(x), ExecSin(x))
      [] cls = "SecantFunction" -> DDiv(One, ExecCos(x))
      [] cls = "CosecantFunction" -> DDiv(One, ExecSin(x))
      [] cls = "HyperbolicSineFunction" -> ExecSinh(x)
      [] cls = "HyperbolicCosineFunction" -> ExecCosh(x)
      [] cls = "HyperbolicTangentFunction" -> ExecTanh(x)
      [] cls = "HyperbolicCotangentFunction" -> DDiv(ExecCosh(x), ExecSinh(x))
      [] cls = "HyperbolicSecantFunction" -> DDiv(One, ExecCosh(x))
      [] cls = "HyperbolicCosecantFunction" -> DDiv(One, ExecSinh(x))
      [] cls = "Base10LogarithmFunction" -> ExecLog(x, TRUE)
      [] cls = "NaturalLogarithmFunction" -> ExecLog(x, FALSE)
      [] cls = "ExponentialFunction" -> ExecExp(x)
      [] cls = "SquareRootFunction" -> ExecSqrt(x)
      [] cls = "ModulusFunction" -> ExecAbs(x)

(***************************************************************************)
(* Configuration (the registry)                                            *)
(***************************************************************************)
NullFn == [cls |-> "null", addr |-> 0]

\* an unordered_map without entries
EmptyMap == <<>>

GetFunction(name) ==
    IF name \in DOMAIN s_Functions THEN s_Functions[name] ELSE NullFn

GetConstantValue(name) ==
    IF name \in DOMAIN s_Constants THEN s_Constants[name] ELSE SNaN

\* the registry after AddFunction<cls>(expressionID): [fns, next]
AddFunctionTo(reg, cls, expressionID) ==
    IF expressionID \notin DOMAIN reg.fns
    THEN [fns |-> reg.fns @@ (expressionID :> [cls |-> cls, addr |-> reg.next + 1]),
          next |-> reg.next + 1]
    ELSE reg

\* the registry after AddConstant(name, value)
AddConstantTo(consts, name, value) ==
    [x \in DOMAIN consts \cup {name} |-> IF x = name THEN value ELSE consts[x]]

\* an Init that leaves out AddFunction<CosineFunction>()
InitClassesWithoutCosine ==
    <<"SineFunction", "TangentFunction", "CotangentFunction",
      "SecantFunction", "CosecantFunction", "HyperbolicSineFunction",
      "HyperbolicCosineFunction", "HyperbolicTangentFunction",
      "HyperbolicCotangentFunction", "HyperbolicSecantFunction",
      "HyperbolicCosecantFunction", "Base10LogarithmFunction",
      "NaturalLogarithmFunction", "SquareRootFunction", "ModulusFunction">>

\* the classes Init registers, in the order of its AddFunction calls
InitClasses ==
    <<"SineFunction", "CosineFunction", "TangentFunction", "CotangentFunction",
      "SecantFunction", "CosecantFunction", "HyperbolicSineFunction",
      "HyperbolicCosineFunction", "HyperbolicTangentFunction",
      "HyperbolicCotangentFunction", "HyperbolicSecantFunction",
      "HyperbolicCosecantFunction", "Base10LogarithmFunction",
      "NaturalLogarithmFunction", "SquareRootFunction", "ModulusFunction">>

RECURSIVE AddAll(_, _)
AddAll(reg, classes) ==
    IF classes = <<>> THEN reg
    ELSE AddAll(AddFunctionTo(reg, Head(classes), GetExpressionID(Head(classes))),
                Tail(classes))

ConfigInit ==
    /\ ~s_Init
    /\ LET reg == AddAll([fns |-> s_Functions, next |-> heapNext], InitClasses)
       IN /\ s_Functions' = reg.fns
          /\ heapNext' = reg.next
    /\ s_Constants' = AddConstantTo(AddConstantTo(s_Constants, <<"e">>, IrrE),
                                    <<"p", "i">>, IrrPi)
    /\ s_Init' = TRUE
    /\ UNCHANGED <<absOverload, chain, printed, passes, ast, simp, diff, respectTo, env, valAst,
                   valSimp, input, tk, parsed>>

\* Shutdown deletes every Function and clears s_Functions; s_Constants is not touched
Shutdown ==
    /\ s_Functions' = EmptyMap
    /\ heapNext' = 0
    /\ s_Init' = FALSE
    /\ UNCHANGED <<s_Constants, absOverload, chain, printed, passes, ast, simp, diff, respectTo,
                   env, valAst, valSimp, input, tk, parsed>>

\* a host's call AddFunction<cls>(expressionID)
AddFunction(cls, expressionID) ==
    /\ LET reg == AddFunctionTo([fns |-> s_Functions, next |-> heapNext], cls, expressionID)
       IN /\ s_Functions' = reg.fns
          /\ heapNext' = reg.next
    /\ UNCHANGED <<s_Constants, s_Init, absOverload, chain, printed, passes, ast, simp, diff,
                   respectTo, env, valAst, valSimp, input, tk, parsed>>

\* a host's call AddConstant(name, value)
AddConstant(name, value) ==
    /\ s_Constants' = AddConstantTo(s_Constants, name, value)
    /\ UNCHANGED <<s_Functions, s_Init, heapNext, absOverload, chain, printed, passes, ast, simp,
                   diff, respectTo, env, valAst, valSimp, input, tk, parsed>>

(***************************************************************************)
(* Nodes and their constructors                                            *)
(***************************************************************************)
NoNode == [type |-> "none"]

ErrorNode(message) == [type |-> "Error", message |-> message]
NumberNode(value) == [type |-> "Number", value |-> value]
VariableNode(name) == [type |-> "Variable", name |-> name]
ConstantNode(constantName) ==
    [type |-> "Constant", name |-> constantName, value |-> GetConstantValue(constantName)]
OperatorNode(op, left, right) ==
    [type |-> "Operator", op |-> op, left |-> left, right |-> right]
EqualsNode(lhs, rhs) == [type |-> "Equals", left |-> lhs, right |-> rhs]
\* a Differential node that is of order 1 whatever order is asked for
DifferentialNodeOfOrderOne(variable, resp, order) ==
    [type |-> "Differential", variable |-> variable, respectTo |-> resp, order |-> 1]

\* a Differential node with the two names exchanged
DifferentialNodeExchanged(variable, resp, order) ==
    [type |-> "Differential", variable |-> resp, respectTo |-> variable, order |-> order]

DifferentialNode(variable, resp, order) ==
    [type |-> "Differential", variable |-> variable, respectTo |-> resp, order |-> order]

CouldNotFind(funcID) == <<"Could not find function ">> \o funcID

\* a constructor that keeps the argument whether the function is found or not
FunctionNodeKeepsArgument(funcID, argument) ==
    [type |-> "Function", func |-> GetFunction(funcID), arg |-> argument]

FunctionNode(funcID, argument) ==
    LET fn == GetFunction(funcID)
    IN [type |-> "Function", func |-> fn,
        arg |-> IF fn = NullFn THEN ErrorNode(CouldNotFind(funcID)) ELSE argument]

IsError(node) == node.type = "Error"
IsNumber(node) == node.type = "Number"
IsNumberEq(node, i) == node.type = "Number" /\ DEq(node.value, Num(i))

(***************************************************************************)
(* Evaluate                                                                *)
(***************************************************************************)
RECURSIVE Evaluate(_, _)
Evaluate(node, variableValues) ==
    CASE node.type = "Error" -> SNaN
      [] node.type = "Number" -> node.value
      [] node.type = "Variable" ->
            IF node.name \in DOMAIN variableValues THEN variableValues[node.name] ELSE SNaN
      [] node.type = "Constant" -> node.value
      [] node.type = "Operator" ->
            LET leftVal == Evaluate(node.left, variableValues)
                rightVal == Evaluate(node.right, variableValues)
            IN IF node.op = <<"+">> THEN DAdd(leftVal, rightVal)
               ELSE IF node.op = <<"-">> THEN DSub(leftVal, rightVal)
               ELSE IF node.op = <<"*">> THEN DMul(leftVal, rightVal)
               ELSE IF node.op = <<"/">> THEN DDiv(leftVal, rightVal)
               ELSE IF node.op = <<"^">> THEN DPow(leftVal, rightVal)
               ELSE IF leftVal.k = "fault" \/ rightVal.k = "fault" THEN Fault
               ELSE SNaN
      [] node.type = "Equals" -> SNaN
      [] node.type = "Differential" -> SNaN
      [] node.type = "Function" ->
            LET argumentVal == Evaluate(node.arg, variableValues)
            IN IF node.func = NullFn THEN Fault    \* call through a null m_Function
               ELSE Exec(node.func.cls, argumentVal)

(***************************************************************************)
(* Simplify                                                                *)
(***************************************************************************)
IsSumOrDifference(node) ==
    node.type = "Operator" /\ (node.op = <<"+">> \/ node.op = <<"-">>)

\* a product with its factors exchanged
TimesExchanged(l, r) == OperatorNode(<<"*">>, r, l)

Times(l, r) == OperatorNode(<<"*">>, l, r)

\* an expansion with a plus sign before every product
ExpandProductAllPlus(leftOp, rightOp) ==
    OperatorNode(<<"+">>,
        OperatorNode(<<"+">>, Times(leftOp.left, rightOp.left), Times(leftOp.left, rightOp.right)),
        OperatorNode(<<"+">>, Times(leftOp.right, rightOp.left), Times(leftOp.right, rightOp.right)))

\* the four expansions of (a op b)(c op d)
ExpandProduct(leftOp, rightOp) ==
    IF leftOp.op = <<"+">> /\ rightOp.op = <<"+">> THEN
        OperatorNode(<<"+">>,
            OperatorNode(<<"+">>, Times(leftOp.left, rightOp.left), Times(leftOp.left, rightOp.right)),
            OperatorNode(<<"+">>, Times(leftOp.right, rightOp.left), Times(leftOp.right, rightOp.right)))
    ELSE IF leftOp.op = <<"+">> /\ rightOp.op = <<"-">> THEN
        OperatorNode(<<"+">>,
            OperatorNode(<<"-">>, Times(leftOp.left, rightOp.left), Times(leftOp.left, rightOp.right)),
            OperatorNode(<<"-">>, Times(leftOp.right, rightOp.left), Times(leftOp.right, rightOp.right)))
    ELSE IF leftOp.op = <<"-">> /\ rightOp.op = <<"+">> THEN
        OperatorNode(<<"+">>,
            OperatorNode(<<"-">>, Times(leftOp.left, rightOp.left), Times(leftOp.right, rightOp.left)),
            OperatorNode(<<"-">>, Times(leftOp.left, rightOp.right), Times(leftOp.right, rightOp.right)))
    ELSE
        OperatorNode(<<"+">>,
            OperatorNode(<<"-">>, Times(leftOp.left, rightOp.left), Times(leftOp.left, rightOp.right)),
            OperatorNode(<<"-">>, Times(leftOp.right, rightOp.right), Times(leftOp.right, rightOp.left)))

\* k(b op c) = kb op kc
Distribute(k, sum) ==
    OperatorNode(sum.op, Times(k, sum.left), Times(k, sum.right))

IsFactor(node) == node.type \in {"Number", "Constant", "Function"}

\* OperatorNode::Simplify after both children are simplified and neither is an Error
SimplifyOperator(op, simplifiedLeft, simplifiedRight) ==
    LET rebuilt == OperatorNode(op, simplifiedLeft, simplifiedRight)
        L == simplifiedLeft
        R == simplifiedRight
    IN
    IF op = <<"+">> THEN
        IF IsNumberEq(L, 0) THEN R
        ELSE IF IsNumber(L) /\ IsNumber(R) THEN NumberNode(DAdd(L.value, R.value))
        ELSE IF IsNumberEq(R, 0) THEN L
        ELSE rebuilt
    ELSE IF op = <<"-">> THEN
        IF IsNumberEq(L, 0) THEN OperatorNode(<<"*">>, NumberNode(Num(-1)), R)
        ELSE IF IsNumber(L) /\ IsNumber(R) THEN NumberNode(DSub(L.value, R.value))
        ELSE IF IsNumberEq(R, 0) THEN L
        ELSE rebuilt
    ELSE IF op = <<"*">> THEN
        IF IsNumberEq(L, 1) THEN R
        ELSE IF IsNumberEq(L, 0) THEN L
        ELSE IF IsNumberEq(R, 1) THEN L
        ELSE IF IsNumberEq(R, 0) THEN R
        ELSE IF L.type = "Constant" /\ R.type = "Constant" /\ L.name = R.name
            THEN OperatorNode(<<"^">>, L, NumberNode(Num(2)))
        ELSE IF L.type = "Variable" /\ R.type = "Variable" /\ L.name = R.name
            THEN OperatorNode(<<"^">>, L, NumberNode(Num(2)))
        ELSE IF IsSumOrDifference(R) /\ IsSumOrDifference(L) THEN ExpandProduct(L, R)
        ELSE IF IsSumOrDifference(R) /\ IsFactor(L) THEN Distribute(L, R)
        ELSE IF IsSumOrDifference(L) /\ IsFactor(R) THEN Distribute(R, L)
        ELSE rebuilt
    ELSE IF op = <<"/">> THEN
        IF IsNumberEq(R, 1) THEN L
        ELSE IF IsNumberEq(L, 0) THEN L
        ELSE rebuilt
    ELSE IF op = <<"^">> THEN
        IF IsNumberEq(L, 0) /\ ~IsNumber(R) THEN NumberNode(Num(0))
        ELSE IF IsNumberEq(L, 0) /\ ~DEq(R.value, Num(0)) THEN NumberNode(Num(0))
        ELSE IF IsNumberEq(L, 1) THEN NumberNode(Num(1))
        ELSE IF IsNumberEq(R, 1) THEN L
        ELSE IF IsNumberEq(R, 0) THEN NumberNode(Num(1))
        ELSE rebuilt
    ELSE rebuilt

\* a Simplify without a reduction table
SimplifyFunctionWithoutRules(cls, simplifiedArgument) ==
    FunctionNode(GetExpressionID(cls), simplifiedArgument)

\* Function::Simplify of class cls once its argument is simplified
SimplifyFunction(cls, simplifiedArgument) ==
    LET A == simplifiedArgument
        same == FunctionNode(GetExpressionID(cls), simplifiedArgument)
    IN
    IF cls \in {"SineFunction", "TangentFunction", "HyperbolicSineFunction",
                "HyperbolicTangentFunction"} THEN
        IF IsNumberEq(A, 0) THEN NumberNode(Num(0)) ELSE same
    ELSE IF cls \in {"CosineFunction", "SecantFunction", "HyperbolicCosineFunction",
                     "HyperbolicSecantFunction"} THEN
        IF IsNumberEq(A, 0) THEN NumberNode(Num(1)) ELSE same
    ELSE IF cls = "Base10LogarithmFunction" THEN
        IF IsNumberEq(A, 1) THEN NumberNode(Num(0))
        ELSE IF IsNumberEq(A, 10) THEN NumberNode(Num(1))
        ELSE same
    ELSE IF cls = "NaturalLogarithmFunction" THEN
        IF IsNumberEq(A, 1) THEN NumberNode(Num(0))
        ELSE IF IsNumber(A) /\ A.value = IrrE THEN NumberNode(Num(1))
        ELSE IF A.type = "Constant" /\ A.name = <<"e">> THEN NumberNode(Num(1))
        ELSE same
    ELSE IF cls = "ExponentialFunction" THEN
        IF IsNumberEq(A, 1) THEN ConstantNode(<<"e">>)
        ELSE IF IsNumberEq(A, 0) THEN NumberNode(Num(1))
        ELSE same
    ELSE IF cls = "SquareRootFunction" THEN
        \* (double)(int)result == result: result is a whole number
        IF IsNumber(A) /\ IsInt(ExecSqrt(A.value)) THEN NumberNode(ExecSqrt(A.value))
        ELSE same
    ELSE IF cls = "ModulusFunction" THEN
        IF IsNumber(A) THEN
            (IF DLess(A.value, Num(0)) THEN NumberNode(Negate(A.value))
             ELSE NumberNode(A.value))
        ELSE same
    ELSE same

\* a Simplify that applies the rules of the root only, to children left as they are
SimplifyShallow(node) ==
    IF node.type # "Operator" THEN node
    ELSE IF IsError(node.left) THEN node.left
    ELSE IF IsError(node.right) THEN node.right
    ELSE SimplifyOperator(node.op, node.left, node.right)

RECURSIVE Simplify(_)
Simplify(node) ==
    CASE node.type = "Error" -> ErrorNode(node.message)
      [] node.type = "Number" -> NumberNode(node.value)
      [] node.type = "Variable" -> VariableNode(node.name)
      [] node.type = "Constant" -> ConstantNode(node.name)
      [] node.type = "Differential" ->
            DifferentialNode(node.variable, node.respectTo, node.order)
      [] node.type = "Operator" ->
            LET simplifiedLeft == Simplify(node.left)
                simplifiedRight == Simplify(node.right)
            IN IF IsError(simplifiedLeft) THEN simplifiedLeft
               ELSE IF IsError(simplifiedRight) THEN simplifiedRight
               ELSE SimplifyOperator(node.op, simplifiedLeft, simplifiedRight)
      [] node.type = "Equals" ->
            LET simplifiedLeft == Simplify(node.left)
                simplifiedRight == Simplify(node.right)
            IN IF IsError(simplifiedLeft) THEN simplifiedLeft
               ELSE IF IsError(simplifiedRight) THEN simplifiedRight
               ELSE EqualsNode(simplifiedLeft, simplifiedRight)
      [] node.type = "Function" ->
            IF IsError(node.arg) THEN node.arg
            ELSE SimplifyFunction(node.func.cls, Simplify(node.arg))

(***************************************************************************)
(* Differentiate                                                           *)
(***************************************************************************)
Fn(id, argument) == FunctionNode(id, argument)
Squared(node) == OperatorNode(<<"^">>, node, NumberNode(Num(2)))
MinusOneTimes(node) == Times(NumberNode(Num(-1)), node)

\* Function::Differentiate of class cls; dArg is argument->Differentiate(respectTo)
DifferentiateFunction(cls, argument, dArg) ==
    CASE cls = "SineFunction" -> Times(dArg, Fn(<<"c", "o", "s">>, argument))
      [] cls = "CosineFunction" ->
            MinusOneTimes(Times(dArg, Fn(<<"s", "i", "n">>, argument)))
      [] cls = "TangentFunction" ->
            Times(dArg, Squared(Fn(<<"s", "e", "c">>, argument)))
      [] cls = "CotangentFunction" ->
            MinusOneTimes(Times(dArg, Squared(Fn(<<"c", "s", "c">>, argument))))
      [] cls = "SecantFunction" ->
            Times(dArg, Times(Fn(<<"t", "a", "n">>, argument), Fn(<<"s", "e", "c">>, argument)))
      [] cls = "CosecantFunction" ->
            MinusOneTimes(Times(dArg, Times(Fn(<<"c", "o", "t">>, argument),
                                            Fn(<<"c", "s", "c">>, argument))))
      [] cls = "HyperbolicSineFunction" ->
            Times(dArg, Fn(<<"c", "o", "s", "h">>, argument))
      [] cls = "HyperbolicCosineFunction" ->
            Times(dArg, Fn(<<"s", "i", "n", "h">>, argument))
      [] cls = "HyperbolicTangentFunction" ->
            Times(dArg, Squared(Fn(<<"s", "e", "c", "h">>, argument)))
      [] cls = "HyperbolicCotangentFunction" ->
            MinusOneTimes(Times(dArg, Squared(Fn(<<"c", "s", "c", "h">>, argument))))
      [] cls = "HyperbolicSecantFunction" ->
            MinusOneTimes(Times(dArg, Times(Fn(<<"t", "a", "n", "h">>, argument),
                                            Fn(<<"s", "e", "c", "h">>, argument))))
      [] cls = "HyperbolicCosecantFunction" ->
            MinusOneTimes(Times(dArg, Times(Fn(<<"c", "o", "t", "h">>, argument),
                                            Fn(<<"c", "s", "c", "h">>, argument))))
      [] cls = "Base10LogarithmFunction" ->
            OperatorNode(<<"/">>, dArg,
                Times(Fn(<<"l", "n">>, NumberNode(Num(10))), argument))
      [] cls = "NaturalLogarithmFunction" -> OperatorNode(<<"/">>, dArg, argument)
      [] cls = "ExponentialFunction" -> Times(dArg, Fn(<<"e", "x", "p">>, argument))
      [] cls = "SquareRootFunction" ->
            OperatorNode(<<"/">>, dArg,
                Times(NumberNode(Num(2)), Fn(<<"s", "q", "r", "t">>, argument)))
      [] cls = "ModulusFunction" ->
            OperatorNode(<<"/">>, Times(argument, dArg), Fn(<<"a", "b", "s">>, argument))

\* OperatorNode::Differentiate once neither child's derivative is an Error
DifferentiateOperator(node, diffLeft, diffRight) ==
    LET L == node.left
        R == node.right
    IN
    IF node.op = <<"+">> THEN OperatorNode(<<"+">>, diffLeft, diffRight)
    ELSE IF node.op = <<"-">> THEN OperatorNode(<<"-">>, diffLeft, diffRight)
    ELSE IF node.op = <<"*">> THEN
        OperatorNode(<<"+">>, Times(diffLeft, R), Times(L, diffRight))
    ELSE IF node.op = <<"/">> THEN
        IF L.type = "Number" THEN
            MinusOneTimes(Times(NumberNode(L.value),
                OperatorNode(<<"/">>, diffRight, Squared(R))))
        ELSE IF L.type = "Constant" THEN
            MinusOneTimes(Times(ConstantNode(L.name),
                OperatorNode(<<"/">>, diffRight, Squared(R))))
        ELSE IF R.type = "Number" THEN OperatorNode(<<"/">>, diffLeft, NumberNode(R.value))
        ELSE IF R.type = "Constant" THEN OperatorNode(<<"/">>, diffLeft, ConstantNode(R.name))
        ELSE OperatorNode(<<"/">>,
                OperatorNode(<<"-">>, Times(R, diffLeft), Times(L, diffRight)),
                Squared(R))
    ELSE IF node.op = <<"^">> THEN
        IF L.type = "Variable" /\ R.type = "Number" THEN
            IF DEq(R.value, Num(1)) THEN NumberNode(Num(1))
            ELSE IF DEq(R.value, Num(0)) THEN NumberNode(Num(0))
            ELSE Times(NumberNode(R.value),
                       OperatorNode(<<"^">>, VariableNode(L.name),
                                    NumberNode(DSub(R.value, Num(1)))))
        ELSE IF L.type = "Variable" /\ R.type = "Constant" THEN
            Times(ConstantNode(R.name),
                  OperatorNode(<<"^">>, VariableNode(L.name),
                      OperatorNode(<<"-">>, ConstantNode(R.name), NumberNode(Num(1)))))
        ELSE IF L.type = "Number" THEN
            Times(Fn(<<"l", "n">>, NumberNode(L.value)),
                  Times(OperatorNode(<<"^">>, L, R), diffRight))
        ELSE IF L.type = "Constant" THEN
            Times(Fn(<<"l", "n">>, ConstantNode(L.name)),
                  Times(OperatorNode(<<"^">>, L, R), diffRight))
        ELSE
            LET baseFraction == OperatorNode(<<"/">>, diffLeft, L)
                lnBase == Fn(<<"l", "n">>, L)
                firstTerm == Times(R, baseFraction)
                secondTerm == Times(lnBase, diffRight)
                result == OperatorNode(<<"+">>, firstTerm, secondTerm)
            IN Times(node, result)
    ELSE ErrorNode(<<"Unknown operator ">> \o node.op)

RECURSIVE Differentiate(_, _)
Differentiate(node, resp) ==
    CASE node.type = "Error" -> ErrorNode(node.message)
      [] node.type = "Number" -> NumberNode(Num(0))
      [] node.type = "Constant" -> NumberNode(Num(0))
      [] node.type = "Variable" ->
            IF node.name = resp THEN NumberNode(Num(1))
            ELSE DifferentialNode(node.name, resp, 1)
      [] node.type = "Differential" ->
            IF resp = node.respectTo
            THEN DifferentialNode(node.variable, node.respectTo, node.order + 1)
            ELSE Times(DifferentialNode(node.variable, node.respectTo, node.order + 1),
                       DifferentialNode(node.respectTo, resp, 1))
      [] node.type = "Operator" ->
            LET diffLeft == Differentiate(node.left, resp)
                diffRight == Differentiate(node.right, resp)
            IN IF IsError(diffLeft) THEN diffLeft
               ELSE IF IsError(diffRight) THEN diffRight
               ELSE DifferentiateOperator(node, diffLeft, diffRight)
      [] node.type = "Equals" ->
            LET diffLeft == Differentiate(node.left, resp)
                diffRight == Differentiate(node.right, resp)
            IN IF IsError(diffLeft) THEN diffLeft
               ELSE IF IsError(diffRight) THEN diffRight
               ELSE EqualsNode(diffLeft, diffRight)
      [] node.type = "Function" ->
            IF IsError(node.arg) THEN node.arg
            ELSE DifferentiateFunction(node.func.cls, node.arg,
                                       Differentiate(node.arg, resp))

(***************************************************************************)
(* ToString                                                                *)
(***************************************************************************)
\* oss.precision(15)
Precision == 15

\* the decimal digits of a natural number, most significant first
RECURSIVE NatDigits(_)
NatDigits(n) == IF n < 10 THEN <<n>> ELSE NatDigits(n \div 10) \o <<n % 10>>

DigitText(s) == [i \in 1..Len(s) |-> CHOOSE c \in Digits : DigitVal(c) = s[i]]

\* the text of a double whose digits are not computed
OtherText == <<"[digits]">>

\* operator<<(double) in the default float format, for n / d > 0: Precision significant
\* digits, rounded to nearest, trailing zeros removed, scientific notation when the
\* decimal exponent is below -4 or not below Precision.  The digits are those of the
\* quotient n / d.  The double nearest to n / d is off by up to 2^-53 of its value, which
\* is more than one unit of the 16th digit: when the two digits after the last kept one
\* are that close to 50, the rounding is not decided by the quotient and no text is
\* computed.
PositiveToString(n, d) ==
    LET \* the first count digits after the decimal point of r / d, for r < d
        RECURSIVE FracDigits(_, _)
        FracDigits(r, count) ==
            IF count <= 0 THEN <<>>
            ELSE <<(r * 10) \div d>> \o FracDigits((r * 10) % d, count - 1)
        \* the number of zeros between the decimal point and the first digit of r / d
        RECURSIVE LeadingZeros(_)
        LeadingZeros(r) == IF r * 10 >= d THEN 0 ELSE 1 + LeadingZeros(r * 10)
        \* a digit sequence plus one unit in its last place
        RECURSIVE RoundUp(_)
        RoundUp(s) ==
            IF s = <<>> THEN <<1>>
            ELSE IF s[Len(s)] < 9 THEN [s EXCEPT ![Len(s)] = @ + 1]
            ELSE RoundUp(SubSeq(s, 1, Len(s) - 1)) \o <<0>>
        RECURSIVE StripZeros(_)
        StripZeros(s) ==
            IF Len(s) > 1 /\ s[Len(s)] = 0 THEN StripZeros(SubSeq(s, 1, Len(s) - 1)) ELSE s
        whole == IF n >= d THEN NatDigits(n \div d) ELSE <<>>
        zeros == IF n >= d THEN 0 ELSE LeadingZeros(n)
        exp10 == IF n >= d THEN Len(whole) - 1 ELSE -(zeros + 1)
        more == FracDigits(n % d, zeros + Precision + 2 - Len(whole))
        digits == whole \o SubSeq(more, zeros + 1, Len(more))
        kept == SubSeq(digits, 1, Precision)
        next == 10 * digits[Precision + 1] + digits[Precision + 2]
        rounded == IF next >= 50 THEN RoundUp(kept) ELSE kept
        carried == Len(rounded) > Precision
        x == IF carried THEN exp10 + 1 ELSE exp10
        sig == StripZeros(SubSeq(rounded, 1, Precision))
        pad(k) == [i \in 1..k |-> 0]
    IN IF next >= 38 /\ next <= 61 THEN OtherText
       ELSE IF x < -4 \/ x >= Precision
       THEN DigitText(<<sig[1]>>)
            \o (IF Len(sig) > 1 THEN <<".">> \o DigitText(Tail(sig)) ELSE <<>>)
            \o <<"e", IF x < 0 THEN "-" ELSE "+">>
            \o (LET a == IF x < 0 THEN -x ELSE x
                IN DigitText(IF a < 10 THEN <<0, a>> ELSE NatDigits(a)))
       ELSE IF x < 0
       THEN <<"0", ".">> \o DigitText(pad(-x - 1) \o sig)
       ELSE IF Len(sig) <= x + 1
       THEN DigitText(sig \o pad(x + 1 - Len(sig)))
       ELSE DigitText(SubSeq(sig, 1, x + 1)) \o <<".">>
            \o DigitText(SubSeq(sig, x + 2, Len(sig)))

\* no text: the call does not return (a call through a null pointer)
FaultText == <<"[fault]">>

\* NumberNode::ToString
NumberToString(v) ==
    CASE v.k = "fin" ->
            (IF v.neg THEN <<"-">> ELSE <<>>)
            \o (IF v.n = 0 THEN <<"0">> ELSE PositiveToString(v.n, v.d))
      [] v.k = "inf" -> (IF v.neg THEN <<"-">> ELSE <<>>) \o <<"i", "n", "f">>
      \* "nan" or "-nan" by the sign bit, which the doubles of this model do not carry
      [] v.k = "nan" -> <<"[-]nan">>
      [] v = IrrE -> <<"2", ".", "7", "1", "8", "2", "8", "1", "8", "2", "8", "4", "5",
                       "9", "0", "5">>
      [] v = IrrPi -> <<"3", ".", "1", "4", "1", "5", "9", "2", "6", "5", "3", "5", "8",
                        "9", "7", "9">>
      [] OTHER -> OtherText

\* std::to_string(int)
IntToString(i) == IF i < 0 THEN <<"-">> \o DigitText(NatDigits(-i)) ELSE DigitText(NatDigits(i))

\* OperatorNode::ToString once neither child is an Error node
OperatorToString(op, leftIsOperator, rightIsOperator, l, r) ==
    CASE op = <<"*">> ->
            IF leftIsOperator
            THEN IF rightIsOperator THEN <<"(">> \o l \o <<")", "(">> \o r \o <<")">>
                 ELSE r \o <<"(">> \o l \o <<")">>
            ELSE IF rightIsOperator THEN l \o <<"(">> \o r \o <<")">>
            ELSE l \o r
      [] op = <<"/">> -> <<"(">> \o l \o <<" ">> \o op \o <<" ">> \o r \o <<")">>
      [] op \in {<<"+">>, <<"-">>} -> l \o <<" ">> \o op \o <<" ">> \o r
      [] op = <<"^">> -> l \o op \o r
      [] OTHER -> <<"(">> \o l \o <<" ">> \o op \o <<" ">> \o r \o <<")">>

\* AstNode::ToString (the name ToString is taken by the TLC module)
RECURSIVE AstToString(_)
AstToString(node) ==
    CASE node.type = "Error" -> node.message
      [] node.type = "Number" -> NumberToString(node.value)
      [] node.type = "Variable" -> node.name
      [] node.type = "Constant" -> node.name
      [] node.type = "Operator" ->
            IF IsError(node.left) THEN node.left.message
            ELSE IF IsError(node.right) THEN node.right.message
            ELSE OperatorToString(node.op, node.left.type = "Operator",
                                  node.right.type = "Operator",
                                  AstToString(node.left), AstToString(node.right))
      [] node.type = "Equals" ->
            IF IsError(node.left) THEN node.left.message
            ELSE IF IsError(node.right) THEN node.right.message
            ELSE AstToString(node.left) \o <<" ", "=", " ">> \o AstToString(node.right)
      [] node.type = "Differential" ->
            IF node.order = 1
            THEN <<"d">> \o node.variable \o <<"/", "d">> \o node.respectTo
            ELSE <<"d", "^">> \o IntToString(node.order) \o node.variable
                 \o <<"/", "d">> \o node.respectTo \o <<"^">> \o IntToString(node.order)
      [] node.type = "Function" ->
            IF IsError(node.arg) THEN node.arg.message
            ELSE IF node.func = NullFn THEN FaultText
            ELSE GetExpressionID(node.func.cls) \o <<"(">> \o AstToString(node.arg) \o <<")">>
      [] OTHER -> FaultText

(***************************************************************************)
(* Trees under test: terms over the node constructors                      *)
(***************************************************************************)
VarX == <<"x">>
VarY == <<"y">>
ConstE == <<"e">>
ErrText == <<"E">>

LeafShapes ==
    {[c |-> "Number", value |-> Num(i)] : i \in -1..MaxNum}
    \cup {[c |-> "Variable", name |-> VarX], [c |-> "Constant", name |-> ConstE],
          [c |-> "Error", message |-> ErrText]}

\* the five operators and one symbol that is none of them
OpSymbols == {<<"+">>, <<"-">>, <<"*">>, <<"/">>, <<"^">>, <<"%">>}
OuterSymbols == {<<"+">>, <<"*">>, <<"^">>}
\* registered ids and one id that is not registered
FuncIds == {<<"s", "i", "n">>, <<"s", "q", "r", "t">>, <<"a", "b", "s">>, <<"f", "o", "o">>}

OuterLeaves == {[c |-> "Number", value |-> Num(0)], [c |-> "Variable", name |-> VarX]}
EqualsLeaves == OuterLeaves \cup {[c |-> "Error", message |-> ErrText]}

OpShape(op, l, r) == [c |-> "Operator", op |-> op, left |-> l, right |-> r]
FuncShape(id, a) == [c |-> "Function", id |-> id, arg |-> a]

Depth1Shapes ==
    {OpShape(op, l, r) : op \in OpSymbols, l \in LeafShapes, r \in LeafShapes}
    \cup {[c |-> "Equals", left |-> l, right |-> r] : l \in EqualsLeaves, r \in EqualsLeaves}
    \cup {FuncShape(id, a) : id \in FuncIds, a \in LeafShapes}

Depth2Shapes ==
    {FuncShape(id, a) : id \in FuncIds, a \in Depth1Shapes}
    \cup {OpShape(op, l, r) : op \in OuterSymbols, l \in Depth1Shapes, r \in OuterLeaves}
    \cup {OpShape(op, l, r) : op \in OuterSymbols, l \in OuterLeaves, r \in Depth1Shapes}

Shapes == LeafShapes \cup Depth1Shapes \cup Depth2Shapes

\* run the constructors of a term, innermost first
RECURSIVE Build(_)
Build(shape) ==
    CASE shape.c = "Number" -> NumberNode(shape.value)
      [] shape.c = "Variable" -> VariableNode(shape.name)
      [] shape.c = "Constant" -> ConstantNode(shape.name)
      [] shape.c = "Error" -> ErrorNode(shape.message)
      [] shape.c = "Operator" -> OperatorNode(shape.op, Build(shape.left), Build(shape.right))
      [] shape.c = "Equals" -> EqualsNode(Build(shape.left), Build(shape.right))
      [] shape.c = "Function" -> FunctionNode(shape.id, Build(shape.arg))

Envs == {<<>>, (VarX :> Num(0)), (VarX :> Num(2))}
RespectTos == {VarX, VarY}

RECURSIVE ContainsError(_)
ContainsError(node) ==
    CASE node.type = "Error" -> TRUE
      [] node.type \in {"Operator", "Equals"} ->
            ContainsError(node.left) \/ ContainsError(node.right)
      [] node.type = "Function" -> ContainsError(node.arg)
      [] OTHER -> FALSE

RECURSIVE FreeVariables(_)
FreeVariables(node) ==
    CASE node.type = "Variable" -> {node.name}
      [] node.type \in {"Operator", "Equals"} ->
            FreeVariables(node.left) \cup FreeVariables(node.right)
      [] node.type = "Function" -> FreeVariables(node.arg)
      [] OTHER -> {}

(***************************************************************************)
(* Trees: a host program calls Configuration::Init(), builds a tree        *)
(* through the node constructors and applies the tree operations to it     *)
(***************************************************************************)
NoParse == [node |-> NoNode, pos |-> -1, exc |-> FALSE, err |-> [message |-> <<>>, pos |-> -1]]

\* no ToString call has returned
NoText == <<"[none]">>

IdleTokenizer ==
    [pc |-> "idle", it |-> [from |-> 0, start |-> 0, end |-> 0], i |-> 0, tokens |-> <<>>,
     insideModulus |-> FALSE]

\* the static members of Configuration before anything is called
StaticInit ==
    /\ s_Functions = EmptyMap
    /\ heapNext = 0
    /\ s_Constants = EmptyMap
    /\ s_Init = FALSE
    /\ absOverload \in {"int", "double"}

Init ==
    /\ StaticInit
    /\ ast = NoNode /\ simp = NoNode /\ diff = NoNode
    /\ respectTo = <<>> /\ env = <<>>
    /\ valAst = NoVal /\ valSimp = NoVal
    /\ input = <<>> /\ tk = IdleTokenizer /\ parsed = NoParse
    /\ printed = NoText /\ passes = <<>> /\ chain = <<>>

\* the host builds its tree after Configuration::Init()
Construct ==
    /\ s_Init
    /\ ast = NoNode
    /\ \E shape \in Shapes : ast' = Build(shape)
    /\ UNCHANGED <<s_Functions, s_Constants, s_Init, heapNext, absOverload, chain, printed,
                   passes, simp, diff, respectTo, env, valAst, valSimp, input, tk, parsed>>

\* a Simplify that rewrites the tree it is called on
DoSimplifyInPlace ==
    /\ ast # NoNode
    /\ simp = NoNode
    /\ simp' = Simplify(ast)
    /\ ast' = simp'
    /\ UNCHANGED <<s_Functions, s_Constants, s_Init, heapNext, absOverload, chain, printed, passes,
                   diff, respectTo, env, valAst, valSimp, input, tk, parsed>>

DoSimplify ==
    /\ ast # NoNode
    /\ simp = NoNode
    /\ simp' = Simplify(ast)
    /\ UNCHANGED <<s_Functions, s_Constants, s_Init, heapNext, absOverload, chain, printed,
                   passes, ast, diff, respectTo, env, valAst, valSimp, input, tk, parsed>>

DoDifferentiate ==
    /\ ast # NoNode
    /\ diff = NoNode
    /\ \E v \in RespectTos :
          /\ respectTo' = v
          /\ diff' = Differentiate(ast, v)
    /\ UNCHANGED <<s_Functions, s_Constants, s_Init, heapNext, absOverload, chain, printed,
                   passes, ast, simp, env, valAst, valSimp, input, tk, parsed>>

\* Evaluate the tree, and its simplified form when there is one, under one env
DoEvaluate ==
    /\ ast # NoNode
    /\ \E e \in Envs :
          /\ env' = e
          /\ valAst' = Evaluate(ast, e)
          /\ valSimp' = IF simp # NoNode THEN Evaluate(simp, e) ELSE NoVal
    /\ UNCHANGED <<s_Functions, s_Constants, s_Init, heapNext, absOverload, chain, printed,
                   passes, ast, simp, diff, respectTo, input, tk, parsed>>

\* std::cout << ast->ToString()
DoToString ==
    /\ ast # NoNode
    /\ printed = NoText
    /\ printed' = AstToString(ast)
    /\ UNCHANGED <<s_Functions, s_Constants, s_Init, heapNext, absOverload, chain, passes, ast,
                   simp, diff, respectTo, env, valAst, valSimp, input, tk, parsed>>

\* d = d->Simplify(); std::cout << d->ToString(), d being the derivative at first
DoSimplifyAgain ==
    /\ diff # NoNode
    /\ Len(passes) < MaxPasses
    /\ LET d == IF passes = <<>> THEN diff ELSE passes[Len(passes)].node
           simplified == Simplify(d)
       IN passes' = Append(passes, [node |-> simplified, text |-> AstToString(simplified)])
    /\ UNCHANGED <<s_Functions, s_Constants, s_Init, heapNext, absOverload, chain, printed, ast,
                   simp, diff, respectTo, env, valAst, valSimp, input, tk, parsed>>

Next == ConfigInit \/ Construct \/ DoSimplify \/ DoDifferentiate \/ DoEvaluate \/ DoToString

Spec == Init /\ [][Next]_vars

\* the host differentiates its tree and simplifies the derivative, as the README's main
NextDerive == ConfigInit \/ Construct \/ DoDifferentiate \/ DoSimplifyAgain

SpecDerive == Init /\ [][NextDerive]_vars

(***************************************************************************)
(* Trees for the rules of Simplify and Differentiate: every function Init   *)
(* registers, products with sums, and derivatives of derivatives           *)
(***************************************************************************)
RuleShapes ==
    LET number(i) == [c |-> "Number", value |-> Num(i)]
        x == [c |-> "Variable", name |-> VarX]
        e == [c |-> "Constant", name |-> ConstE]
        ids == {GetExpressionID(InitClasses[i]) : i \in 1..Len(InitClasses)}
        arithmetic == OpSymbols \ {<<"%">>}
        arguments ==
            {number(i) : i \in -1..MaxArg}
            \cup {[c |-> "Number", value |-> IrrE], x, e,
                  [c |-> "Error", message |-> ErrText],
                  OpShape(<<"-">>, number(1), number(1)), OpShape(<<"+">>, x, number(0)),
                  OpShape(<<"+">>, x, [c |-> "Error", message |-> ErrText])}
            \cup {OpShape(op, x, number(2)) : op \in arithmetic}
        terms == {x, number(2), number(-1)}
        sums == {OpShape(op, a, b) : op \in {<<"+">>, <<"-">>}, a \in terms, b \in terms}
        factors == {number(2), number(-1), number(1), e, x, FuncShape(<<"s", "i", "n">>, x)}
    IN {x}
       \cup {FuncShape(id, a) : id \in ids, a \in arguments}
       \cup {OpShape(op, FuncShape(id, x), x) : op \in arithmetic, id \in ids}
       \cup {OpShape(op, x, FuncShape(id, x)) : op \in arithmetic, id \in ids}
       \cup {OpShape(<<"*">>, k, sum) : k \in factors, sum \in sums}
       \cup {OpShape(<<"*">>, sum, k) : k \in factors, sum \in sums}
       \cup {OpShape(<<"*">>, l, r) : l \in sums, r \in sums}

\* the host builds one of these trees after Configuration::Init()
ConstructRule ==
    /\ s_Init
    /\ ast = NoNode
    /\ \E shape \in RuleShapes : ast' = Build(shape)
    /\ UNCHANGED <<s_Functions, s_Constants, s_Init, heapNext, absOverload, chain, printed,
                   passes, simp, diff, respectTo, env, valAst, valSimp, input, tk, parsed>>

\* d = ast->Differentiate(v), then d = d->Differentiate(w), ...
DoDifferentiateChain ==
    /\ ast # NoNode
    /\ Len(chain) < MaxChain
    /\ \E v \in {VarX, VarY, <<"t">>} :
          /\ respectTo' = v
          /\ chain' = Append(chain, v)
          /\ diff' = Differentiate(IF chain = <<>> THEN ast ELSE diff, v)
    /\ UNCHANGED <<s_Functions, s_Constants, s_Init, heapNext, absOverload, printed,
                   passes, ast, simp, env, valAst, valSimp, input, tk, parsed>>

NextRules == ConfigInit \/ ConstructRule \/ DoSimplify \/ DoDifferentiateChain

SpecRules == Init /\ [][NextRules]_vars

(***************************************************************************)
(* Tokenizer                                                               *)
(***************************************************************************)
Token(type, value) == [Type |-> type, Value |-> value]

\* the numeric value of enum class TokenType
TypeCode(type) ==
    CASE type = "Number" -> 0 [] type = "Operator" -> 1 [] type = "Variable" -> 2
      [] type = "Constant" -> 3 [] type = "Function" -> 4 [] type = "Parenthesis" -> 5
      [] type = "ModulusDelimiter" -> 6 [] type = "Equals" -> 7 [] type = "Unknown" -> 8

OperatorChars == {"+", "-", "*", "/", "^", "="}

CharAt(text, p) == IF p >= 1 /\ p <= Len(text) THEN text[p] ELSE "<none>"

\* \b between text[p-1] and text[p]
WordBoundaryAt(text, p) == IsWordChar(CharAt(text, p - 1)) # IsWordChar(CharAt(text, p))

LiteralAt(text, p, lit) ==
    /\ p + Len(lit) - 1 <= Len(text)
    /\ SubSeq(text, p, p + Len(lit) - 1) = lit

\* \b(w1|w2|...)\b at p: the index after the match, 0 when there is none
WordEnd(text, p, words) ==
    LET hits == {w \in words : /\ WordBoundaryAt(text, p)
                               /\ LiteralAt(text, p, w)
                               /\ WordBoundaryAt(text, p + Len(w))}
    IN IF hits = {} THEN 0 ELSE p + Len(CHOOSE w \in hits : TRUE)

RECURSIVE DigitsEnd(_, _)
DigitsEnd(text, p) == IF IsDigit(CharAt(text, p)) THEN DigitsEnd(text, p + 1) ELSE p

RECURSIVE LettersEnd(_, _)
LettersEnd(text, p) == IF IsLetter(CharAt(text, p)) THEN LettersEnd(text, p + 1) ELSE p

\* -?\d+(\.\d+)? at p: the index after the match, 0 when there is none
NumberEnd(text, p) ==
    LET q == IF CharAt(text, p) = "-" THEN p + 1 ELSE p
        d == DigitsEnd(text, q)
    IN IF d = q THEN 0
       ELSE IF CharAt(text, d) = "." /\ DigitsEnd(text, d + 1) > d + 1
            THEN DigitsEnd(text, d + 1)
       ELSE d

\* tokenPattern at p, alternatives tried in order
MatchEndAt(text, p) ==
    IF WordEnd(text, p, DOMAIN s_Functions) # 0 THEN WordEnd(text, p, DOMAIN s_Functions)
    ELSE IF WordEnd(text, p, DOMAIN s_Constants) # 0 THEN WordEnd(text, p, DOMAIN s_Constants)
    ELSE IF NumberEnd(text, p) # 0 THEN NumberEnd(text, p)
    ELSE IF CharAt(text, p) \in OperatorChars THEN p + 1
    ELSE IF LettersEnd(text, p) > p THEN LettersEnd(text, p)
    ELSE IF CharAt(text, p) \in {"(", ")"} THEN p + 1
    ELSE IF CharAt(text, p) = "|" THEN p + 1
    ELSE 0

\* the end-of-sequence iterator
EndIt == [from |-> 0, start |-> 0, end |-> 0]

\* std::sregex_iterator: the first match at or after from
RECURSIVE NextMatchFrom(_, _, _)
NextMatchFrom(text, from, p) ==
    IF p > Len(text) THEN EndIt
    ELSE IF MatchEndAt(text, p) # 0 THEN [from |-> from, start |-> p, end |-> MatchEndAt(text, p)]
    ELSE NextMatchFrom(text, from, p + 1)

NextMatch(text, from) == NextMatchFrom(text, from, from)

MatchText(text, m) == SubSeq(text, m.start, m.end - 1)

\* a chain of tests whose number pattern has no sign
ClassifyUnsigned(value) ==
    IF value \in DOMAIN s_Functions THEN "Function"
    ELSE IF value \in DOMAIN s_Constants THEN "Constant"
    ELSE IF DigitsEnd(value, 1) > 1 /\ NumberEnd(value, 1) = Len(value) + 1 THEN "Number"
    ELSE IF Len(value) = 1 /\ value[1] \in OperatorChars
        THEN (IF value = <<"=">> THEN "Equals" ELSE "Operator")
    ELSE IF LettersEnd(value, 1) = Len(value) + 1 THEN "Variable"
    ELSE IF value \in {<<"(">>, <<")">>} THEN "Parenthesis"
    ELSE IF value \in {<<"(">>, <<")">>} THEN "ModulusDelimiter"
    ELSE "Unknown"

\* the chain of std::regex_match tests that types a token text
Classify(value) ==
    IF value \in DOMAIN s_Functions THEN "Function"
    ELSE IF value \in DOMAIN s_Constants THEN "Constant"
    ELSE IF NumberEnd(value, 1) = Len(value) + 1 THEN "Number"
    ELSE IF Len(value) = 1 /\ value[1] \in OperatorChars
        THEN (IF value = <<"=">> THEN "Equals" ELSE "Operator")
    ELSE IF LettersEnd(value, 1) = Len(value) + 1 THEN "Variable"
    ELSE IF value \in {<<"(">>, <<")">>} THEN "Parenthesis"
    ELSE IF value \in {<<"(">>, <<")">>} THEN "ModulusDelimiter"
    ELSE "Unknown"

IsNegativeSign(index, tokens, insideModulus) ==
    IF index = 0 THEN TRUE
    ELSE LET previousToken == tokens[Len(tokens)]
         IN \/ previousToken.Type = "Operator"
            \/ (previousToken.Type = "Parenthesis" /\ previousToken.Value = <<"(">>)
            \/ (previousToken.Type = "ModulusDelimiter" /\ insideModulus)

\* Tokenize up to its loop: the iterator stands on the first match
TokenizeBegin(text) ==
    LET first == NextMatch(text, 1)
    IN [pc |-> IF first = EndIt THEN "done" ELSE "loop",
        it |-> first, i |-> 0, tokens |-> <<>>, insideModulus |-> FALSE]

\* one iteration of the while loop of Tokenize
TokenizeIteration(text, t) ==
    LET value == MatchText(text, t.it)
        type == Classify(value)
        inside == IF type = "ModulusDelimiter" THEN ~t.insideModulus ELSE t.insideModulus
    IN
    IF type = "Operator" /\ value = <<"-">> /\ IsNegativeSign(t.i, t.tokens, inside) THEN
        LET nextIt == NextMatch(text, t.it.end)
        IN IF nextIt # EndIt THEN
               LET after == NextMatch(text, nextIt.end)
               IN [pc |-> IF after = EndIt THEN "done" ELSE "loop",
                   it |-> after, i |-> t.i + 1,
                   tokens |-> Append(t.tokens, Token("Number", value \o MatchText(text, nextIt))),
                   insideModulus |-> inside]
           \* ++it on the end iterator (undefined); it stays at the end with libstdc++
           ELSE [pc |-> "pastEnd", it |-> EndIt, i |-> t.i + 1, tokens |-> t.tokens,
                 insideModulus |-> inside]
    ELSE
        LET after == NextMatch(text, t.it.end)
        IN [pc |-> IF after = EndIt THEN "done" ELSE "loop",
            it |-> after, i |-> t.i + 1,
            tokens |-> Append(t.tokens, Token(type, value)),
            insideModulus |-> inside]

\* Tokenize as a function of its input, for the builds where ++end is harmless
RECURSIVE TokenizeLoop(_, _)
TokenizeLoop(text, t) ==
    IF t.pc = "loop" THEN TokenizeLoop(text, TokenizeIteration(text, t)) ELSE t.tokens

Tokenize(text) == TokenizeLoop(text, TokenizeBegin(text))

(***************************************************************************)
(* std::stod                                                               *)
(***************************************************************************)
\* the number written by the digits text[p..q-1]
RECURSIVE DigitsValue(_, _, _)
DigitsValue(text, p, q) ==
    IF q <= p THEN 0 ELSE 10 * DigitsValue(text, p, q - 1) + DigitVal(text[q - 1])

\* std::stod(text): [ok, value]; ok is FALSE when it throws std::invalid_argument.
\* The longest prefix that is a number is converted; the token texts of the
\* tokenizer never start with white space, "0x" or carry an exponent.
Stod(text) ==
    LET neg == CharAt(text, 1) = "-"
        q == IF neg THEN 2 ELSE 1
        d == DigitsEnd(text, q)
        f == IF CharAt(text, d) = "." THEN DigitsEnd(text, d + 1) ELSE d
        isInf == LiteralAt(text, q, <<"i", "n", "f">>)
        isNan == LiteralAt(text, q, <<"n", "a", "n">>)
    IN IF d > q \/ f > d + 1 THEN
           [ok |-> TRUE,
            value |-> IF f > d + 1
                      THEN Fin(neg, DigitsValue(text, q, d) * IPow(10, f - d - 1)
                                    + DigitsValue(text, d + 1, f), IPow(10, f - d - 1))
                      ELSE Fin(neg, DigitsValue(text, q, d), 1)]
       ELSE IF isInf THEN [ok |-> TRUE, value |-> Inf(neg)]
       ELSE IF isNan THEN [ok |-> TRUE, value |-> QNaN]
       ELSE [ok |-> FALSE, value |-> NoVal]

(***************************************************************************)
(* Parser                                                                  *)
(*                                                                         *)
(* A parse function maps (m_Tokens, m_Position) to a record                *)
(*   node : the node it returns                                            *)
(*   pos  : m_Position when it returns                                     *)
(*   exc  : TRUE when it is left by an exception (std::stod)               *)
(*   err  : history - message and position of the first Error node that    *)
(*          any parse function returned during the call, or NoErr          *)
(***************************************************************************)
NoErr == [message |-> <<>>, pos |-> -1]

FirstErr(a, b) == IF a # NoErr THEN a ELSE b

\* a return that leaves the position one token before the one asked for
ReturnedOneTokenBack(node, pos, err) ==
    [node |-> node, pos |-> pos - 1, exc |-> FALSE,
     err |-> IF node.type = "Error" THEN FirstErr(err, [message |-> node.message, pos |-> pos])
             ELSE err]

Returned(node, pos, err) ==
    [node |-> node, pos |-> pos, exc |-> FALSE,
     err |-> IF node.type = "Error" THEN FirstErr(err, [message |-> node.message, pos |-> pos])
             ELSE err]

Thrown(pos, err) == [node |-> NoNode, pos |-> pos, exc |-> TRUE, err |-> err]

\* Peek() is not null and its Value is value
PeekIs(toks, pos, value) == pos < Len(toks) /\ toks[pos + 1].Value = value

\* the levels with the additive and the multiplicative operators exchanged
LevelSymbolsExchanged(level) ==
    CASE level = "Equals" -> {<<"=">>}
      [] level = "AdditionSubtraction" -> {<<"*">>, <<"/">>}
      [] level = "MultiplicationDivision" -> {<<"+">>, <<"-">>}
      [] level = "Exponentiation" -> {<<"^">>}

\* the token values a level's loop goes on with
LevelSymbols(level) ==
    CASE level = "Equals" -> {<<"=">>}
      [] level = "AdditionSubtraction" -> {<<"+">>, <<"-">>}
      [] level = "MultiplicationDivision" -> {<<"*">>, <<"/">>}
      [] level = "Exponentiation" -> {<<"^">>}

MakeBinary(level, symbol, left, right) ==
    IF level = "Equals" THEN EqualsNode(left, right) ELSE OperatorNode(symbol, left, right)

UnexpectedToken(token) ==
    <<"unexpected token ">> \o token.Value \o <<" (type = ">>
        \o <<CASE TypeCode(token.Type) = 0 -> "0" [] TypeCode(token.Type) = 1 -> "1"
               [] TypeCode(token.Type) = 2 -> "2" [] TypeCode(token.Type) = 3 -> "3"
               [] TypeCode(token.Type) = 4 -> "4" [] TypeCode(token.Type) = 5 -> "5"
               [] TypeCode(token.Type) = 6 -> "6" [] TypeCode(token.Type) = 7 -> "7"
               [] TypeCode(token.Type) = 8 -> "8">> \o <<")">>

RECURSIVE ParseExpression(_, _), ParseEquals(_, _), ParseAdditionSubtraction(_, _),
          ParseMultiplicationDivision(_, _), ParseExponentiation(_, _), ParsePrimary(_, _),
          ParseOperand(_, _, _), ParseLoop(_, _, _), ParseLevel(_, _, _),
          ParseBracketed(_, _, _, _, _, _), ParseLoopImplicit(_, _, _)

\* the next higher level's parse function
ParseOperand(level, toks, pos) ==
    CASE level = "Equals" -> ParseAdditionSubtraction(toks, pos)
      [] level = "AdditionSubtraction" -> ParseMultiplicationDivision(toks, pos)
      [] level = "MultiplicationDivision" -> ParseExponentiation(toks, pos)
      [] level = "Exponentiation" -> ParsePrimary(toks, pos)

\* a loop that takes an operand standing where a "*" or "/" could stand as a factor
ParseLoopImplicit(level, toks, left) ==
    IF left.pos >= Len(toks) THEN left
    ELSE LET token == toks[left.pos + 1]
             implicit == /\ level = "MultiplicationDivision"
                         /\ token.Type \in {"Number", "Variable", "Constant", "Function"}
         IN
         IF token.Value \notin LevelSymbols(level) /\ ~implicit THEN left
         ELSE LET right == ParseOperand(level, toks,
                                        IF implicit THEN left.pos ELSE left.pos + 1) IN
              IF right.exc \/ IsError(right.node)
              THEN [right EXCEPT !.err = FirstErr(left.err, right.err)]
              ELSE ParseLoopImplicit(level, toks,
                     [node |-> MakeBinary(level, IF implicit THEN <<"*">> ELSE token.Value,
                                          left.node, right.node),
                      pos |-> right.pos, exc |-> FALSE,
                      err |-> FirstErr(left.err, right.err)])

\* a level that parses all that follows its operator as the right argument
ParseLoopToTheRight(level, toks, left) ==
    IF left.pos >= Len(toks) THEN left
    ELSE LET token == toks[left.pos + 1] IN
         IF token.Value \notin LevelSymbols(level) THEN left
         ELSE LET right == ParseLevel(level, toks, left.pos + 1) IN
              IF right.exc \/ IsError(right.node)
              THEN [right EXCEPT !.err = FirstErr(left.err, right.err)]
              ELSE [node |-> MakeBinary(level, token.Value, left.node, right.node),
                    pos |-> right.pos, exc |-> FALSE,
                    err |-> FirstErr(left.err, right.err)]

\* the while (true) loop of a binary level; left is the result so far
ParseLoop(level, toks, left) ==
    IF left.pos >= Len(toks) THEN left
    ELSE LET token == toks[left.pos + 1] IN
         IF token.Value \notin LevelSymbols(level) THEN left
         ELSE LET right == ParseOperand(level, toks, left.pos + 1) IN
              IF right.exc \/ IsError(right.node)
              THEN [right EXCEPT !.err = FirstErr(left.err, right.err)]
              ELSE ParseLoop(level, toks,
                     [node |-> MakeBinary(level, token.Value, left.node, right.node),
                      pos |-> right.pos, exc |-> FALSE,
                      err |-> FirstErr(left.err, right.err)])

ParseLevel(level, toks, pos) ==
    LET left == ParseOperand(level, toks, pos)
    IN IF left.exc \/ IsError(left.node) THEN left ELSE ParseLoop(level, toks, left)

ParseExpression(toks, pos) == ParseEquals(toks, pos)
ParseEquals(toks, pos) == ParseLevel("Equals", toks, pos)
ParseAdditionSubtraction(toks, pos) == ParseLevel("AdditionSubtraction", toks, pos)
ParseMultiplicationDivision(toks, pos) == ParseLevel("MultiplicationDivision", toks, pos)
ParseExponentiation(toks, pos) == ParseLevel("Exponentiation", toks, pos)

\* after the opening token: ParseExpression, then the closing token is expected;
\* kind is "Function", "Modulus" or "Parenthesis", pos the position of the inner expression
ParseBracketed(kind, funcID, close, missing, toks, pos) ==
    LET inner == ParseExpression(toks, pos) IN
    IF inner.exc THEN inner
    ELSE IF ~PeekIs(toks, inner.pos, close) THEN Returned(ErrorNode(missing), inner.pos, inner.err)
    ELSE IF kind = "Parenthesis" THEN Returned(inner.node, inner.pos + 1, inner.err)
    ELSE Returned(FunctionNode(funcID, inner.node), inner.pos + 1, inner.err)

ParsePrimary(toks, pos) ==
    IF pos >= Len(toks) THEN Returned(ErrorNode(<<"Unexpected end of tokens">>), pos, NoErr)
    ELSE LET token == toks[pos + 1] IN
    IF token.Type = "Number" THEN
        IF Stod(token.Value).ok THEN Returned(NumberNode(Stod(token.Value).value), pos + 1, NoErr)
        ELSE Thrown(pos + 1, NoErr)
    ELSE IF token.Type = "Constant" THEN Returned(ConstantNode(token.Value), pos + 1, NoErr)
    ELSE IF token.Type = "Variable" THEN Returned(VariableNode(token.Value), pos + 1, NoErr)
    ELSE IF token.Type = "Function" THEN
        IF ~PeekIs(toks, pos + 1, <<"(">>)
        THEN Returned(ErrorNode(<<"expected '(' after function">>), pos + 1, NoErr)
        ELSE ParseBracketed("Function", token.Value, <<")">>,
                            <<"expected ')' after function argument">>, toks, pos + 2)
    ELSE IF token.Type = "ModulusDelimiter" THEN
        ParseBracketed("Modulus", <<"a", "b", "s">>, <<"|">>,
                       <<"expected '|' to close modulus expression">>, toks, pos + 1)
    ELSE IF token.Type = "Parenthesis" /\ token.Value = <<"(">> THEN
        ParseBracketed("Parenthesis", <<>>, <<")">>, <<"expected ')'">>, toks, pos + 1)
    ELSE Returned(ErrorNode(UnexpectedToken(token)), pos, NoErr)

(***************************************************************************)
(* Tokenizing and parsing an input text                                    *)
(***************************************************************************)
Lexemes ==
    {<<"a">>, <<"3">>, <<"-">>, <<"+">>, <<"*">>, <<"/">>, <<"^">>, <<"=">>, <<"(">>, <<")">>,
     <<"|">>, <<" ">>, <<".">>, <<"e">>, <<"l", "n">>}

\* the texts made of at most n lexemes
RECURSIVE LexemeStrings(_)
LexemeStrings(n) ==
    IF n = 0 THEN {<<>>}
    ELSE LexemeStrings(n - 1) \cup {t \o l : t \in LexemeStrings(n - 1), l \in Lexemes}

OperandNames == <<"a", "b", "c", "d", "f", "g", "h", "k">>
ChainSymbols == {"+", "-", "*", "/", "^", "="}

\* operand (symbol operand)^k : the j-th operand is the j-th name
RECURSIVE OperatorChains(_)
OperatorChains(k) ==
    IF k = 0 THEN {<<OperandNames[1]>>}
    ELSE {c \o <<o, OperandNames[k + 1]>> : c \in OperatorChains(k - 1), o \in ChainSymbols}

\* the texts the documentation of the library tokenizes or parses
ExampleInputs ==
    {<<"a", "-", "3">>, <<"-", "3", "+", "x">>, <<"(", "-", "3", ")">>,
     <<"a", "*", "-", "3">>, <<"|", "-", "5", "|">>, <<"|", "-", "3", "|">>,
     <<"s", "i", "n", "(", ")">>, <<"s", "i", "n", "(", "a">>, <<"2", "x">>,
     <<"x", "^", "2">>}

Inputs ==
    LexemeStrings(MaxLen) \cup UNION {OperatorChains(k) : k \in 1..MaxOps} \cup ExampleInputs

\* a host program about to call Configuration::Init() and then to tokenize input
InitParse ==
    /\ StaticInit
    /\ ast = NoNode /\ simp = NoNode /\ diff = NoNode
    /\ respectTo = <<>> /\ env = <<>>
    /\ valAst = NoVal /\ valSimp = NoVal
    /\ input \in Inputs /\ tk = IdleTokenizer /\ parsed = NoParse
    /\ printed = NoText /\ passes = <<>> /\ chain = <<>>

\* the host tokenizes after Configuration::Init()
BeginTokenize ==
    /\ s_Init
    /\ tk.pc = "idle"
    /\ tk' = TokenizeBegin(input)
    /\ UNCHANGED <<s_Functions, s_Constants, s_Init, heapNext, absOverload, chain, printed,
                   passes, ast, simp, diff, respectTo, env, valAst, valSimp, input, parsed>>

TokenizeStep ==
    /\ tk.pc = "loop"
    /\ tk' = TokenizeIteration(input, tk)
    /\ UNCHANGED <<s_Functions, s_Constants, s_Init, heapNext, absOverload, chain, printed,
                   passes, ast, simp, diff, respectTo, env, valAst, valSimp, input, parsed>>

\* the iterator was incremented past the end: anything may follow; the builds at
\* hand either leave the loop or fail
IncrementPastEnd ==
    /\ tk.pc = "pastEnd"
    /\ \E outcome \in {"done", "fault"} : tk' = [tk EXCEPT !.pc = outcome]
    /\ UNCHANGED <<s_Functions, s_Constants, s_Init, heapNext, absOverload, chain, printed,
                   passes, ast, simp, diff, respectTo, env, valAst, valSimp, input, parsed>>

\* Parser parser(tokens); parser.ParseExpression()
DoParse ==
    /\ tk.pc = "done"
    /\ parsed = NoParse
    /\ parsed' = ParseExpression(tk.tokens, 0)
    /\ UNCHANGED <<s_Functions, s_Constants, s_Init, heapNext, absOverload, chain, printed,
                   passes, ast, simp, diff, respectTo, env, valAst, valSimp, input, tk>>

NextParse == ConfigInit \/ BeginTokenize \/ TokenizeStep \/ IncrementPastEnd \/ DoParse

SpecParse == InitParse /\ [][NextParse]_vars

(***************************************************************************)
(* Registry: a host calls Init, Shutdown, AddFunction and AddConstant in   *)
(* any order                                                               *)
(***************************************************************************)
\* the AddFunction<T>(id) calls of a host: a class Init leaves out under its own id, a
\* class under an id Init registers, and a class under a new id
HostFunctions ==
    {<<"ExponentialFunction", <<"e", "x", "p">>>>,
     <<"CosineFunction", <<"s", "i", "n">>>>,
     <<"ExponentialFunction", <<"f">>>>,
     <<"CosineFunction", <<"f">>>>}

\* the AddConstant(name, value) calls of a host
HostConstantNames == {<<"e">>, <<"k">>}
HostConstantValues == {Num(0), Num(MaxNum)}

NextConfig ==
    \/ ConfigInit
    \/ Shutdown
    \/ \E call \in HostFunctions : AddFunction(call[1], call[2])
    \/ \E name \in HostConstantNames, value \in HostConstantValues : AddConstant(name, value)

SpecConfig == Init /\ [][NextConfig]_vars

(***************************************************************************)
(* Lifetime: a host builds a Function node and calls Init, Shutdown and     *)
(* AddFunction before and after, then uses the node                         *)
(***************************************************************************)
\* fn is a Function* whose object Shutdown has deleted: no entry of s_Functions holds it
IsDeleted(fn) == fn # NullFn /\ \A id \in DOMAIN s_Functions : s_Functions[id] # fn

\* std::make_shared<FunctionNode>(funcID, argument), at any time
ConstructFunctionNode ==
    /\ ast = NoNode
    /\ \E funcID \in {<<"s", "i", "n">>, <<"f">>},
          argument \in {VariableNode(VarX), NumberNode(Num(0))} :
          ast' = FunctionNode(funcID, argument)
    /\ UNCHANGED <<s_Functions, s_Constants, s_Init, heapNext, absOverload, chain, printed,
                   passes, simp, diff, respectTo, env, valAst, valSimp, input, tk, parsed>>

\* a call through m_Function after its object was deleted: anything may follow; the
\* builds at hand either run the code of the deleted object, as DoSimplify,
\* DoDifferentiate, DoEvaluate and DoToString do, or fail in the call, whichever of
\* Simplify, Differentiate, Evaluate and ToString it is, and the host gets no result
UseDeleted ==
    /\ ast.type = "Function" /\ IsDeleted(ast.func) /\ ~IsError(ast.arg)
    /\ printed = NoText
    /\ printed' = FaultText
    /\ valAst' = Fault
    /\ UNCHANGED <<s_Functions, s_Constants, s_Init, heapNext, absOverload, chain, passes,
                   ast, simp, diff, respectTo, env, valSimp, input, tk, parsed>>

NextLife ==
    \/ ConfigInit
    \/ Shutdown
    \/ AddFunction("ExponentialFunction", <<"f">>)
    \/ ConstructFunctionNode
    \/ DoSimplify
    \/ DoDifferentiate
    \/ DoEvaluate
    \/ DoToString
    \/ UseDeleted

SpecLife == Init /\ [][NextLife]_vars

(***************************************************************************)
(* Properties of the tree operations                                       *)
(***************************************************************************)
\* a double whose value the model computes exactly
Exact(v) == v.k \in {"fin", "inf", "nan"}

\* the two doubles are the same value (two NaNs count as the same)
SameValue(a, b) == (IsNaN(a) /\ IsNaN(b)) \/ DEq(a, b)

\* the tree and its simplified form have both been evaluated under env
EvaluatedBoth == valAst # NoVal /\ valSimp # NoVal

\* C1: for a tree without Error node and an env binding all its free variables,
\* Evaluate(Simplify(T), env) equals Evaluate(T, env)
C1_SimplifyPreservesValue ==
    (/\ EvaluatedBoth
     /\ ~ContainsError(ast)
     /\ FreeVariables(ast) \subseteq DOMAIN env
     /\ Exact(valAst) /\ Exact(valSimp))
    => SameValue(valSimp, valAst)

\* C2: Differentiate of a tree that contains an Error node anywhere returns an Error node
C2_DifferentiateAbsorbsError ==
    (diff # NoNode /\ ContainsError(ast)) => IsError(diff)

\* C3: Simplify of a tree that contains an Error node anywhere returns an Error node
C3_SimplifyAbsorbsError ==
    (simp # NoNode /\ ContainsError(ast)) => IsError(simp)

\* C4: Evaluate of a tree that contains an Error node anywhere returns NaN, for every
\* env, and completes without an out-of-band failure
C4_EvaluateErrorIsNaN ==
    (valAst # NoVal /\ ContainsError(ast)) => valAst.k \in {"nan", "irr"}

(***************************************************************************)
(* Properties of the tokenizer                                             *)
(***************************************************************************)
AllDigits(text) == text # <<>> /\ \A p \in 1..Len(text) : IsDigit(text[p])

\* the tokens of an operand (a Variable, Number or Constant, or a ")") standing alone
IsOperandText(text) ==
    /\ Len(Tokenize(text)) = 1
    /\ Tokenize(text)[1].Value = text
    /\ \/ Tokenize(text)[1].Type \in {"Variable", "Number", "Constant"}
       \/ text = <<")">>

\* C5: a "-" that directly follows an operand token and is directly followed by digits
\* becomes a separate Operator "-" token followed by an unsigned Number token:
\* Tokenize(operand - digits) = [operand, Operator "-", Number digits], e.g. for "a-3"
C5_MinusAfterOperandIsOperator ==
    tk.pc = "done" =>
        \A p \in 2..(Len(input) - 1) :
            LET operand == SubSeq(input, 1, p - 1)
                digits == SubSeq(input, p + 1, Len(input))
            IN (input[p] = "-" /\ AllDigits(digits) /\ IsOperandText(operand)) =>
                  tk.tokens = Tokenize(operand)
                                \o <<Token("Operator", <<"-">>), Token("Number", digits)>>

\* the match the loop of Tokenize stands on is a "-" followed by a digit, at the start of
\* the input or directly after the last token, which is an Operator or a "("
SignedNumberCase ==
    /\ tk.pc = "loop"
    /\ CharAt(input, tk.it.start) = "-"
    /\ IsDigit(CharAt(input, tk.it.start + 1))
    /\ \/ tk.tokens = <<>> /\ tk.it.start = 1
       \/ /\ tk.tokens # <<>>
          /\ tk.it.start = tk.it.from
          /\ LET previousToken == tk.tokens[Len(tk.tokens)]
             IN previousToken.Type = "Operator" \/ previousToken.Value = <<"(">>

\* text is a "-", then all the digits that follow the "-" at position p of the input,
\* then at most a fraction
IsSignAndDigits(text, p) ==
    /\ Len(text) >= DigitsEnd(input, p + 1) - p
    /\ text = SubSeq(input, p, p + Len(text) - 1)
    /\ \A q \in 2..Len(text) : IsDigit(text[q]) \/ text[q] = "."

NumbersOf(tokens) == SelectSeq(tokens, LAMBDA t : t.Type = "Number")
HasOperatorMinus(tokens) ==
    \E p \in 1..Len(tokens) : tokens[p] = Token("Operator", <<"-">>)

\* C6: a "-" followed by digits at the start of the input, or directly after an Operator
\* token or "(", becomes one Number token whose text is the sign plus the digits;
\* "-3+x" gives [Number -3, Operator +, Variable x]; "(-3)" and "a*-3" hold exactly one
\* Number token, "-3", and no Operator "-"
C6_SignedNumberIsOneToken ==
    [][/\ SignedNumberCase =>
            \E text \in {SubSeq(input, tk.it.start, q) : q \in tk.it.start..Len(input)} :
                /\ IsSignAndDigits(text, tk.it.start)
                /\ tk'.tokens = Append(tk.tokens, Token("Number", text))
       /\ (tk'.pc = "done" /\ input = <<"-", "3", "+", "x">>) =>
            tk'.tokens = <<Token("Number", <<"-", "3">>), Token("Operator", <<"+">>),
                           Token("Variable", <<"x">>)>>
       /\ (tk'.pc = "done" /\ input \in {<<"(", "-", "3", ")">>, <<"a", "*", "-", "3">>}) =>
            /\ NumbersOf(tk'.tokens) = <<Token("Number", <<"-", "3">>)>>
            /\ ~HasOperatorMinus(tk'.tokens)]_vars

\* "a*-3" has been tokenized: the "-3" after the Operator "*" is one Number token
C6_Witness ==
    /\ tk.pc = "done"
    /\ input = <<"a", "*", "-", "3">>
    /\ tk.tokens = <<Token("Variable", <<"a">>), Token("Operator", <<"*">>),
                     Token("Number", <<"-", "3">>)>>

(***************************************************************************)
(* Properties of the parser                                                *)
(***************************************************************************)
Finished == tk.pc = "done" /\ parsed # NoParse

\* text parses to a tree: no Error, no exception, every token used
IsWellFormed(text) ==
    LET r == ParseExpression(Tokenize(text), 0)
    IN ~r.exc /\ ~IsError(r.node) /\ r.pos = Len(Tokenize(text)) /\ r.err = NoErr

\* C7: "|e|" for a well-formed e parses to the Function node abs whose argument is the
\* parse of e; "|-5|" parses to abs(-5), which Simplify turns into Number 5
C7_ModulusParsesToAbs ==
    Finished =>
        /\ \A e \in {SubSeq(input, 2, Len(input) - 1)} :
              ( /\ Len(input) >= 3 /\ input[1] = "|" /\ input[Len(input)] = "|"
                /\ \A p \in 1..Len(e) : e[p] # "|"
                /\ IsWellFormed(e) ) =>
                    /\ ~parsed.exc
                    /\ parsed.node =
                          FunctionNode(<<"a", "b", "s">>, ParseExpression(Tokenize(e), 0).node)
        /\ input = <<"|", "-", "5", "|">> =>
              /\ ~parsed.exc
              /\ parsed.node = FunctionNode(<<"a", "b", "s">>, NumberNode(Num(-5)))
              /\ Simplify(parsed.node) = NumberNode(Num(5))

IsBinary(node) == node.type \in {"Operator", "Equals"}
SymbolOf(node) == IF node.type = "Equals" THEN <<"=">> ELSE node.op

\* a Variable or Constant token, or a Number token whose text is a number
IsOperand(token) ==
    \/ token.Type \in {"Variable", "Constant"}
    \/ token.Type = "Number" /\ NumberEnd(token.Value, 1) = Len(token.Value) + 1

\* operand (operator operand)+
IsOperatorChain(tokens) ==
    /\ Len(tokens) >= 3 /\ Len(tokens) % 2 = 1
    /\ \A p \in 1..Len(tokens) :
          IF p % 2 = 1 THEN IsOperand(tokens[p])
          ELSE tokens[p].Type \in {"Operator", "Equals"}

\* the i-th operator of a chain
ChainOperator(tokens, i) == tokens[2 * i].Value
OperatorsIn(tokens) == 1..((Len(tokens) - 1) \div 2)

\* what a tree over the chain reads from left to right: the operands as the nodes
\* ParsePrimary makes of them, the operators as their symbols
ChainReading(tokens) ==
    [p \in 1..Len(tokens) |->
        IF p % 2 = 1 THEN ParsePrimary(<<tokens[p]>>, 0).node ELSE tokens[p].Value]

RECURSIVE InOrder(_)
InOrder(node) ==
    IF IsBinary(node) THEN InOrder(node.left) \o <<SymbolOf(node)>> \o InOrder(node.right)
    ELSE <<node>>

RECURSIVE OperatorCount(_)
OperatorCount(node) ==
    IF IsBinary(node) THEN OperatorCount(node.left) + 1 + OperatorCount(node.right) ELSE 0

\* the pairs <<i, j>> such that the j-th operator, counted from the left and starting
\* after the first `before` operators, is a descendant of the i-th one
RECURSIVE Ancestry(_, _)
Ancestry(node, before) ==
    IF ~IsBinary(node) THEN {}
    ELSE LET root == before + OperatorCount(node.left) + 1
         IN {<<root, j>> : j \in ((before + 1)..(before + OperatorCount(node))) \ {root}}
            \cup Ancestry(node.left, before) \cup Ancestry(node.right, root)

Precedence(symbol) ==
    CASE symbol = <<"=">> -> 0
      [] symbol \in {<<"+">>, <<"-">>} -> 1
      [] symbol \in {<<"*">>, <<"/">>} -> 2
      [] symbol = <<"^">> -> 3

Var(name) == VariableNode(<<name>>)

\* C8: precedence, lowest to highest, is "=", then "+" "-", then "*" "/", then "^":
\* in the parse of an operator chain, of two adjacent operators of different precedence
\* the higher one is a descendant of the lower one; "a+b*c^d" parses to a + (b * (c ^ d))
C8_PrecedenceGrouping ==
    (Finished /\ IsOperatorChain(tk.tokens)) =>
        /\ ~parsed.exc
        /\ InOrder(parsed.node) = ChainReading(tk.tokens)
        /\ \A i \in OperatorsIn(tk.tokens) : \A j \in {i + 1} \cap OperatorsIn(tk.tokens) :
              LET pi == Precedence(ChainOperator(tk.tokens, i))
                  pj == Precedence(ChainOperator(tk.tokens, j))
              IN /\ pi < pj => <<i, j>> \in Ancestry(parsed.node, 0)
                 /\ pi > pj => <<j, i>> \in Ancestry(parsed.node, 0)
        /\ input = <<"a", "+", "b", "*", "c", "^", "d">> =>
              parsed.node =
                  OperatorNode(<<"+">>, Var("a"),
                      OperatorNode(<<"*">>, Var("b"), OperatorNode(<<"^">>, Var("c"), Var("d"))))

\* "a+b*c^d" has been parsed to a + (b * (c ^ d))
C8_Witness ==
    /\ Finished
    /\ input = <<"a", "+", "b", "*", "c", "^", "d">>
    /\ IsOperatorChain(tk.tokens)
    /\ parsed.node =
          OperatorNode(<<"+">>, Var("a"),
              OperatorNode(<<"*">>, Var("b"), OperatorNode(<<"^">>, Var("c"), Var("d"))))

\* every operator application has an operand as its right argument
RECURSIVE IsLeftNested(_)
IsLeftNested(node) == IsBinary(node) => (~IsBinary(node.right) /\ IsLeftNested(node.left))

SamePrecedence(tokens) ==
    \A i, j \in OperatorsIn(tokens) :
        Precedence(ChainOperator(tokens, i)) = Precedence(ChainOperator(tokens, j))

\* C9: every binary operator, "^" and "=" included, associates to the left: a chain of
\* operators of one precedence level a op1 b op2 c parses to ((a op1 b) op2 c);
\* "a^b^c" parses to (a^b)^c
C9_LeftAssociative ==
    (Finished /\ IsOperatorChain(tk.tokens) /\ SamePrecedence(tk.tokens)) =>
        /\ ~parsed.exc
        /\ InOrder(parsed.node) = ChainReading(tk.tokens)
        /\ IsLeftNested(parsed.node)
        /\ input = <<"a", "^", "b", "^", "c">> =>
              parsed.node = OperatorNode(<<"^">>, OperatorNode(<<"^">>, Var("a"), Var("b")),
                                         Var("c"))

\* "a^b^c" has been parsed to (a^b)^c
C9_Witness ==
    /\ Finished
    /\ input = <<"a", "^", "b", "^", "c">>
    /\ SamePrecedence(tk.tokens)
    /\ parsed.node = OperatorNode(<<"^">>, OperatorNode(<<"^">>, Var("a"), Var("b")), Var("c"))

\* C10: when a parse call made during ParseExpression returned an Error node,
\* ParseExpression returns an Error node with the same message and m_Position is where
\* it was when that Error was returned (no token is consumed after it)
C10_ErrorReturnedUnchanged ==
    (Finished /\ ~parsed.exc /\ parsed.err # NoErr) =>
        /\ IsError(parsed.node)
        /\ parsed.node.message = parsed.err.message
        /\ parsed.pos = parsed.err.pos

\* the first k tokens are operand (operator operand)*
IsChainPrefix(tokens, k) ==
    /\ k % 2 = 1 /\ k <= Len(tokens)
    /\ \A p \in 1..k :
          IF p % 2 = 1 THEN IsOperand(tokens[p])
          ELSE tokens[p].Type \in {"Operator", "Equals"}

\* C11: no implicit multiplication: when an operator chain is followed by a token that is
\* not an infix operator, ParseExpression returns the tree of the chain, no Error node,
\* and leaves the tokens after the chain unconsumed; for "2x" it returns Number 2
C11_NoImplicitMultiplication ==
    Finished =>
        /\ \A k \in 1..(Len(tk.tokens) - 1) :
              (IsChainPrefix(tk.tokens, k) /\ tk.tokens[k + 1].Type \notin {"Operator", "Equals"})
                  => /\ ~parsed.exc
                     /\ ~IsError(parsed.node)
                     /\ parsed.pos = k
                     /\ InOrder(parsed.node) = ChainReading(SubSeq(tk.tokens, 1, k))
        /\ input = <<"2", "x">> =>
              /\ tk.tokens = <<Token("Number", <<"2">>), Token("Variable", <<"x">>)>>
              /\ parsed = [node |-> NumberNode(Num(2)), pos |-> 1, exc |-> FALSE, err |-> NoErr]

\* "2x" has been parsed to Number 2 with the Variable token x left unconsumed
C11_Witness ==
    /\ Finished
    /\ input = <<"2", "x">>
    /\ Len(tk.tokens) = 2
    /\ parsed.node = NumberNode(Num(2)) /\ parsed.pos = 1

(***************************************************************************)
(* Properties of the registry                                              *)
(***************************************************************************)
\* the function ids and constant names the library documents as built in
StandardFunctionIds ==
    {<<"s", "i", "n">>, <<"c", "o", "s">>, <<"t", "a", "n">>, <<"c", "o", "t">>,
     <<"s", "e", "c">>, <<"c", "s", "c">>, <<"s", "i", "n", "h">>, <<"c", "o", "s", "h">>,
     <<"t", "a", "n", "h">>, <<"c", "o", "t", "h">>, <<"s", "e", "c", "h">>,
     <<"c", "s", "c", "h">>, <<"l", "o", "g">>, <<"l", "n">>, <<"e", "x", "p">>,
     <<"s", "q", "r", "t">>, <<"a", "b", "s">>}

StandardConstantNames == {<<"e">>, <<"p", "i">>}

\* C12: once Init() has run, GetFunction is non-null for each of the 17 standard ids and
\* GetConstantValue is not NaN for e and pi
C12_InitRegistersStandardSet ==
    s_Init =>
        /\ \A id \in StandardFunctionIds : GetFunction(id) # NullFn
        /\ \A name \in StandardConstantNames : ~IsNaN(GetConstantValue(name))

\* C13: an AddFunction or AddConstant call with an id or name that is already registered
\* leaves the registered entry or value as it was
C13_FirstRegistrationWins ==
    [][/\ \A call \in HostFunctions :
             (AddFunction(call[1], call[2]) /\ call[2] \in DOMAIN s_Functions)
                 => s_Functions'[call[2]] = s_Functions[call[2]]
       /\ \A name \in HostConstantNames, value \in HostConstantValues :
             (AddConstant(name, value) /\ name \in DOMAIN s_Constants)
                 => s_Constants'[name] = s_Constants[name]]_vars

\* the ids Init() registers on an empty registry
InitFunctionIds == {GetExpressionID(InitClasses[i]) : i \in DOMAIN InitClasses}

\* C14: Shutdown() leaves no function and no constant in the registry, and the Init()
\* that follows leaves exactly the standard functions and the standard constant values
C14_ShutdownEmptiesRegistry ==
    [][/\ Shutdown => (s_Functions' = EmptyMap /\ s_Constants' = EmptyMap)
       /\ (ConfigInit /\ s_Functions = EmptyMap)
             => /\ DOMAIN s_Functions' = InitFunctionIds
                /\ DOMAIN s_Constants' = StandardConstantNames
                /\ s_Constants'[<<"e">>] = IrrE
                /\ s_Constants'[<<"p", "i">>] = IrrPi]_vars

(***************************************************************************)
(* Properties of the derivative and its text                               *)
(***************************************************************************)
XSquaredText == <<"x", "^", "2">>

\* the host has built the tree that "x^2" parses to and differentiated it with respect to x
DerivativeOfXSquared ==
    /\ ast = OperatorNode(<<"^">>, VariableNode(VarX), NumberNode(Num(2)))
    /\ diff # NoNode
    /\ respectTo = VarX
    /\ ast = ParseExpression(Tokenize(XSquaredText), 0).node

\* C15 as stated: the derivative of "x^2" simplified once prints as 2x^1, simplified
\* twice as 2x
C15_OnePassLeavesPower ==
    DerivativeOfXSquared =>
        /\ Len(passes) >= 1 => passes[1].text = <<"2", "x", "^", "1">>
        /\ Len(passes) >= 2 => passes[2].text = <<"2", "x">>

\* C15 amended: the derivative of "x^2" is 2 * x^1 and prints as 2(x^1); simplified
\* once it is already 2 * x and prints as 2x, and a second Simplify changes nothing
C15_OnePassGives2x ==
    DerivativeOfXSquared =>
        /\ AstToString(diff) = <<"2", "(", "x", "^", "1", ")">>
        /\ \A i \in 1..Len(passes) :
              /\ passes[i].node = OperatorNode(<<"*">>, NumberNode(Num(2)), VariableNode(VarX))
              /\ passes[i].text = <<"2", "x">>

\* the derivative of x^2 has been simplified MaxPasses times
C15_Witness ==
    /\ DerivativeOfXSquared
    /\ Len(passes) = MaxPasses
    /\ passes[1].text = <<"2", "x">>

(***************************************************************************)
(* Properties of Simplify and Differentiate on leaves and identities       *)
(***************************************************************************)
IsVariable(node) == node.type = "Variable"

\* Simplify(ast) has returned and ast is op applied to left and right
Simplified(op, left, right) == simp # NoNode /\ ast = OperatorNode(op, left, right)

\* the identities of C16 that have a Variable operand
VariableIdentities ==
    \A name \in {VarX, VarY} :
        LET x == VariableNode(name) IN
        /\ Simplified(<<"+">>, x, NumberNode(Num(0))) => simp = x
        /\ Simplified(<<"*">>, NumberNode(Num(0)), x) => simp = NumberNode(Num(0))
        /\ Simplified(<<"*">>, x, x) => simp = OperatorNode(<<"^">>, x, NumberNode(Num(2)))
        /\ Simplified(<<"^">>, x, NumberNode(Num(0))) => simp = NumberNode(Num(1))
        /\ Simplified(<<"^">>, x, NumberNode(Num(1))) => simp = x

\* Simplify(ast) has returned and ast is 0^y
SimplifiedZeroPower ==
    /\ simp # NoNode
    /\ ast.type = "Operator" /\ ast.op = <<"^">>
    /\ ast.left = NumberNode(Num(0))

C17_DifferentiateLeaves ==
    diff # NoNode =>
        /\ ast.type \in {"Number", "Constant"} => diff = NumberNode(Num(0))
        /\ (IsVariable(ast) /\ ast.name = respectTo) => diff = NumberNode(Num(1))
        /\ (IsVariable(ast) /\ ast.name # respectTo) =>
              diff = [type |-> "Differential", variable |-> ast.name,
                      respectTo |-> respectTo, order |-> 1]

\* the Variable x has been differentiated with respect to y
C17_Witness ==
    /\ ast = VariableNode(VarX)
    /\ respectTo = VarY
    /\ diff.type = "Differential"

(***************************************************************************)
(* Properties of Error nodes in a tree                                     *)
(***************************************************************************)
\* ast is a Function node built for an id that is not registered
IsUnknownFunction == ast # NoNode /\ ast.type = "Function" /\ ast.func = NullFn

\* C18: the Function node of an unregistered id holds the Error node "Could not find
\* function <id>" in place of the argument it was given, and its ToString is that
\* message, its Differentiate and its Simplify that Error node
C18_UnknownFunctionIsError ==
    IsUnknownFunction =>
        /\ \E id \in {f \in FuncIds : GetFunction(f) = NullFn} :
              ast.arg = [type |-> "Error", message |-> <<"Could not find function ">> \o id]
        /\ printed # NoText => printed = ast.arg.message
        /\ diff # NoNode => diff = ast.arg
        /\ simp # NoNode => simp = ast.arg

\* the node of an unregistered id has been printed, differentiated and simplified
C18_Witness ==
    /\ IsUnknownFunction
    /\ printed = <<"Could not find function ", "f", "o", "o">>
    /\ diff # NoNode
    /\ simp # NoNode

\* the messages of the Error nodes of a tree
RECURSIVE ErrorMessages(_)
ErrorMessages(node) ==
    CASE node.type = "Error" -> {node.message}
      [] node.type \in {"Operator", "Equals"} ->
            ErrorMessages(node.left) \cup ErrorMessages(node.right)
      [] node.type = "Function" -> ErrorMessages(node.arg)
      [] OTHER -> {}

\* C20: ToString of a tree that holds an Error node, at any depth, returns exactly the
\* message of that Error node
C20_ToStringOfErrorIsMessage ==
    (printed # NoText /\ ErrorMessages(ast) # {}) => printed \in ErrorMessages(ast)

IsSignedDecimal(text) == text # <<>> /\ NumberEnd(text, 1) = Len(text) + 1

\* C21: Tokenize followed by ParseExpression ends with a node and without an exception,
\* and every Number token holds a signed decimal literal
C21_NoOutOfBandFailure ==
    Finished =>
        /\ ~parsed.exc
        /\ parsed.node # NoNode
        /\ \A p \in 1..Len(tk.tokens) :
              tk.tokens[p].Type = "Number" => IsSignedDecimal(tk.tokens[p].Value)

(***************************************************************************)
(* Properties of the rules of OperatorNode::Simplify and ::Differentiate    *)
(***************************************************************************)
\* Simplify(ast) has returned, ast is an Operator node with this symbol and neither
\* simplified child is an Error node
SimplifiedOperator(op) ==
    /\ simp # NoNode
    /\ ast.type = "Operator" /\ ast.op = op
    /\ ~IsError(Simplify(ast.left)) /\ ~IsError(Simplify(ast.right))

\* C22: 0^0 (after the children are simplified) is left as the Operator node 0^0, and
\* 0^R for any other R becomes Number 0
C22_ZeroPowerZeroIsKept ==
    (SimplifiedOperator(<<"^">>) /\ Simplify(ast.left) = NumberNode(Num(0))) =>
        IF Simplify(ast.right) = NumberNode(Num(0))
        THEN simp = [type |-> "Operator", op |-> <<"^">>,
                     left |-> NumberNode(Num(0)), right |-> NumberNode(Num(0))]
        ELSE simp = NumberNode(Num(0))

\* C23: a difference of two Numbers (after the children are simplified) becomes the one
\* Number left - right, also when left is 0
C23_DifferenceOfNumbersIsFolded ==
    (SimplifiedOperator(<<"-">>) /\ IsNumber(Simplify(ast.left))
                                /\ IsNumber(Simplify(ast.right))) =>
        simp = NumberNode(DSub(Simplify(ast.left).value, Simplify(ast.right).value))

\* ast is name^n for a Variable name and a Number n, and has been differentiated
DifferentiatedPower ==
    /\ diff # NoNode
    /\ ast.type = "Operator" /\ ast.op = <<"^">>
    /\ ast.left.type = "Variable" /\ ast.right.type = "Number"

\* C24: the derivative of L^n, L a Variable and n a Number, is Number 1 for n = 1,
\* Number 0 for n = 0 and n * L^(n-1) otherwise, whatever name it is taken with respect to
C24_PowerRuleIgnoresRespectTo ==
    DifferentiatedPower =>
        LET n == ast.right.value IN
        IF DEq(n, Num(1)) THEN diff = NumberNode(Num(1))
        ELSE IF DEq(n, Num(0)) THEN diff = NumberNode(Num(0))
        ELSE diff = [type |-> "Operator", op |-> <<"*">>,
                     left |-> NumberNode(n),
                     right |-> [type |-> "Operator", op |-> <<"^">>,
                                left |-> VariableNode(ast.left.name),
                                right |-> NumberNode(DSub(n, Num(1)))]]

\* x^2 has been differentiated with respect to y, a name that is not its base
C24_Witness ==
    /\ DifferentiatedPower
    /\ ast.left.name = VarX /\ respectTo = VarY
    /\ ast.right.value = Num(2)
    /\ diff.type = "Operator"

\* the node is a sum or a difference
IsSum(node) == node.type = "Operator" /\ node.op \in {<<"+">>, <<"-">>}
\* the node is a Number other than 0 and 1, a Constant or a Function node
IsK(node) ==
    \/ node.type = "Number" /\ ~DEq(node.value, Num(0)) /\ ~DEq(node.value, Num(1))
    \/ node.type \in {"Constant", "Function"}
Product(l, r) == [type |-> "Operator", op |-> <<"*">>, left |-> l, right |-> r]

\* C25: a product of k (a Number other than 0 and 1, a Constant or a Function node) and
\* a sum or difference A op B, in either order, is simplified to (k*A) op (k*B); a
\* product of two sums or differences is simplified to a combination of the four
\* products of their terms that has the value of the product under every env
C25_ProductsOfSumsAreExpanded ==
    SimplifiedOperator(<<"*">>) =>
        LET L == Simplify(ast.left)
            R == Simplify(ast.right)
            Distributed(k, sum) ==
                [type |-> "Operator", op |-> sum.op,
                 left |-> Product(k, sum.left), right |-> Product(k, sum.right)]
        IN /\ (IsK(L) /\ IsSum(R)) => simp = Distributed(L, R)
           /\ (IsSum(L) /\ IsK(R)) => simp = Distributed(R, L)
           /\ (IsSum(L) /\ IsSum(R)) =>
                 /\ IsSum(simp) /\ IsSum(simp.left) /\ IsSum(simp.right)
                 /\ {simp.left.left, simp.left.right, simp.right.left, simp.right.right}
                       = {Product(a, c) : a \in {L.left, L.right}, c \in {R.left, R.right}}
                 /\ \A e \in Envs :
                       VarX \in DOMAIN e => DEq(Evaluate(simp, e), Evaluate(ast, e))

\* (A - B)(C - D) with four different products has been simplified
C25_Witness ==
    /\ SimplifiedOperator(<<"*">>)
    /\ IsSum(ast.left) /\ ast.left.op = <<"-">>
    /\ IsSum(ast.right) /\ ast.right.op = <<"-">>
    /\ ast.left.left # ast.left.right /\ ast.right.left # ast.right.right
    /\ IsSum(simp) /\ IsSum(simp.right) /\ simp.right.op = <<"-">>
    /\ simp.right.left = Product(ast.left.right, ast.right.right)

\* Simplify(ast) has returned and ast is a Function node of a registered function
SimplifiedFunction == simp # NoNode /\ ast.type = "Function" /\ ast.func # NullFn

\* what the reduction table gives for the function id and the simplified argument u;
\* numberE tells whether ln of a Number that equals e is part of the table
TableResult(func, u, numberE) ==
    LET id == GetExpressionID(func.cls)
        Is(i) == u.type = "Number" /\ DEq(u.value, Num(i))
        number(i) == [type |-> "Number", value |-> Num(i)]
        same == [type |-> "Function", func |-> func, arg |-> u]
        roots == {r \in 0..(MaxArg + 1) : Is(r * r)}
    IN IF id \in {<<"s", "i", "n">>, <<"t", "a", "n">>, <<"s", "i", "n", "h">>,
                  <<"t", "a", "n", "h">>}
       THEN (IF Is(0) THEN number(0) ELSE same)
       ELSE IF id \in {<<"c", "o", "s">>, <<"c", "o", "s", "h">>, <<"s", "e", "c">>,
                       <<"s", "e", "c", "h">>}
       THEN (IF Is(0) THEN number(1) ELSE same)
       ELSE IF id = <<"l", "o", "g">>
       THEN (IF Is(1) THEN number(0) ELSE IF Is(10) THEN number(1) ELSE same)
       ELSE IF id = <<"l", "n">>
       THEN (IF Is(1) THEN number(0)
             ELSE IF u.type = "Constant" /\ u.name = <<"e">> THEN number(1)
             ELSE IF numberE /\ u.type = "Number" /\ u.value = IrrE THEN number(1)
             ELSE same)
       ELSE IF id = <<"s", "q", "r", "t">>
       THEN (IF roots # {} THEN number(CHOOSE r \in roots : TRUE) ELSE same)
       ELSE IF id = <<"a", "b", "s">>
       THEN (IF u.type = "Number"
             THEN [type |-> "Number",
                   value |-> IF DLess(u.value, Num(0)) THEN Negate(u.value) ELSE u.value]
             ELSE same)
       ELSE same

\* C26: Simplify of f(u) is what the reduction table gives for the simplified argument
\* u': 0 for sin, tan, sinh, tanh of 0; 1 for cos, cosh, sec, sech of 0; 0 for log and ln
\* of 1; 1 for log of 10 and ln of the Constant e; the whole root for sqrt; |v| for abs
\* of a Number v; and f(u') otherwise
C26_FunctionTable ==
    SimplifiedFunction => simp = TableResult(ast.func, Simplify(ast.arg), FALSE)

\* C26, amended: when u is an Error node Simplify of f(u) returns u; otherwise it is
\* what the table gives for the simplified argument, the table having one more row:
\* ln of a Number whose value is e is 1
C26_FunctionTableWithNumberE ==
    SimplifiedFunction =>
        IF ast.arg.type = "Error" THEN simp = ast.arg
        ELSE simp = TableResult(ast.func, Simplify(ast.arg), TRUE)

\* sqrt(9) has been simplified to 3
C26_Witness ==
    /\ SimplifiedFunction
    /\ ast.func.cls = "SquareRootFunction"
    /\ ast.arg.type = "Number" /\ ast.arg.value = Num(9)
    /\ simp = [type |-> "Number", value |-> Num(3)]

\* C27: after Init, Differentiate of a tree without an Error node (so every Function node
\* in it has a registered id) returns a tree without an Error node
C27_DerivativeHasNoError ==
    (s_Init /\ diff # NoNode /\ ~ContainsError(ast)) => ~ContainsError(diff)

\* csch(x) has been differentiated: the rule instantiates coth and csch
C27_Witness ==
    /\ s_Init /\ Len(chain) = 1
    /\ ast.type = "Function" /\ ast.func.cls = "HyperbolicCosecantFunction"
    /\ ast.arg.type = "Variable"
    /\ diff.type = "Operator"

\* the orders of the Differential nodes of a tree
RECURSIVE Orders(_)
Orders(node) ==
    CASE node.type = "Differential" -> {node.order}
      [] node.type \in {"Operator", "Equals"} -> Orders(node.left) \cup Orders(node.right)
      [] node.type = "Function" -> Orders(node.arg)
      [] OTHER -> {}

Differential(variable, resp, order) ==
    [type |-> "Differential", variable |-> variable, respectTo |-> resp, order |-> order]

\* C30: k Differentiate(v) calls in a row on Variable u, u # v, give the Differential of u
\* with respect to v of order k; Differentiate(t) of the Differential (u, v, n) gives the
\* Differential (u, v, n + 1) for t = v and its product with the Differential (v, t, 1)
\* for another t; no derivative holds a Differential of an order below 1
C30_DifferentialOrders ==
    /\ []((/\ ast.type = "Variable" /\ chain # <<>>
           /\ \A i \in 1..Len(chain) : chain[i] = chain[1] /\ chain[i] # ast.name)
          => diff = Differential(ast.name, chain[1], Len(chain)))
    /\ [](diff # NoNode => \A order \in Orders(diff) : order >= 1)
    /\ [][(diff.type = "Differential" /\ chain' # chain) =>
             LET higher == Differential(diff.variable, diff.respectTo, diff.order + 1)
             IN IF respectTo' = diff.respectTo THEN diff' = higher
                ELSE diff' = Product(higher, Differential(diff.respectTo, respectTo', 1))]_vars

\* x has been differentiated with respect to y and the result with respect to t
C30_Witness ==
    /\ ast.type = "Variable" /\ ast.name = VarX
    /\ chain = <<VarY, <<"t">>>>
    /\ diff = Product(Differential(VarX, VarY, 2), Differential(VarY, <<"t">>, 1))

(***************************************************************************)
(* Properties of the lifetime of the registry's Function objects           *)
(***************************************************************************)
\* one of Simplify, Differentiate, Evaluate and ToString is called on ast in this step
OperationOnAst ==
    simp' # simp \/ diff' # diff \/ printed' # printed \/ valAst' # valAst \/ env' # env

\* C28: whatever Init, Shutdown and AddFunction calls come before, no Simplify,
\* Differentiate, Evaluate or ToString is called on a Function node whose Function
\* object Shutdown has deleted
C28_NoUseOfDeletedFunction ==
    [][OperationOnAst => ~(ast.type = "Function" /\ IsDeleted(ast.func))]_vars

(***************************************************************************)
(* Properties of the parser's position                                     *)
(***************************************************************************)
ParserLevels == {"Equals", "AdditionSubtraction", "MultiplicationDivision", "Exponentiation"}

\* from every position p of the tokens: a level and ParsePrimary end at a position from
\* p to the number of tokens, and after p when they return a tree; an iteration of a
\* level's loop that finds its symbol at p goes on at a position after p
PositionAdvances(toks) ==
    \A p \in 0..Len(toks) :
        /\ ParsePrimary(toks, p).pos \in p..Len(toks)
        /\ \A level \in ParserLevels :
              LET r == ParseLevel(level, toks, p) IN
              /\ r.pos \in p..Len(toks)
              /\ (~r.exc /\ ~IsError(r.node)) => r.pos > p
              /\ (p < Len(toks) /\ toks[p + 1].Value \in LevelSymbols(level)) =>
                    ParseOperand(level, toks, p + 1).pos \in (p + 1)..Len(toks)

\* C29: ParseExpression has returned (or thrown) for every token sequence that was
\* tokenized; its position never decreases and never exceeds the number of tokens, and
\* every iteration of the loop of a binary-operator level consumes at least one token,
\* so that no loop runs more often than there are tokens
C29_ParserPositionAdvances ==
    Finished => (parsed.pos \in 0..Len(tk.tokens) /\ PositionAdvances(tk.tokens))

\* a chain of MaxOps operators has been parsed to its end: the loops ran MaxOps iterations
C29_Witness ==
    /\ Finished
    /\ Len(tk.tokens) = 2 * MaxOps + 1
    /\ parsed.pos = Len(tk.tokens)
    /\ ~parsed.exc /\ ~IsError(parsed.node)

====
